---- MODULE Spec2Model ----
(***************************************************************************)
(* CoreLayer AI HyperVisor: the security-mediation layer between the UI    *)
(* and privileged command execution.                                       *)
(*   - preload.js : channel whitelists, sanitizeInput, the window.api      *)
(*                  bridge (invoke / send / on / once)                     *)
(*   - main.js    : ALLOWED_CMDLETS, BLOCKED_PATTERNS, isRateLimited,      *)
(*                  isCommandSafe, the ipcMain handlers                    *)
(* Strings are TLA+ strings; a JavaScript value is a record tagged by its  *)
(* kind; a regular expression is a sequence of items run by a backtracking *)
(* matcher that follows the ECMAScript matching order.                     *)
(***************************************************************************)
EXTENDS Integers, Sequences, FiniteSets, TLC

VARIABLES
    requests,        \* preload: the window.api calls made so far, in call order
    handlerRuns,     \* main: channels whose ipcMain handler body has run
    input,           \* sanitizeInput: the value handed to it
    output,          \* sanitizeInput: the value it returned
    twice,           \* sanitizeInput: the value returned for its own output
    commandHistory,  \* main: timestamps kept by isRateLimited
    now,             \* main: Date.now()
    calls,           \* main: run-hyperv-cmd / execute-powershell requests, in arrival order
    procs,           \* main: command lines handed to execPromise, in start order
    rateLog,         \* main: what each call of isRateLimited returned, and when
    tasksList,       \* renderer: the tasks of the tasks panel, most recent first
    taskIdCounter,   \* renderer: the id given to the last task created
    timers,          \* renderer: the removal timers set by completeTask
    ops              \* renderer: the UI operations started, with the await each one is at

vars == <<requests, handlerRuns, input, output, twice, commandHistory, now, calls, procs,
          rateLog, tasksList, taskIdCounter, timers, ops>>

bridgeVars   == <<requests, handlerRuns>>
sanitizeVars == <<input, output, twice>>
mainVars     == <<commandHistory, now, calls, procs, rateLog>>
taskVars     == <<tasksList, taskIdCounter, timers, ops>>

-----------------------------------------------------------------------------
(* JavaScript values *)

Str(s)     == [t |-> "string", s |-> s]
Num(n)     == [t |-> "number", n |-> n]
Bool(b)    == [t |-> "boolean", b |-> b]
Null       == [t |-> "null"]
Undefined  == [t |-> "undefined"]
Arr(a)     == [t |-> "array", a |-> a]
Obj(ks, vs) == [t |-> "object", k |-> ks, v |-> vs]

\* NaN, and the test for it
NaN      == [t |-> "number", nan |-> TRUE]
IsNaN(x) == x.t = "number" /\ "nan" \in DOMAIN x

\* typeof x
TypeOf(x) == IF x.t \in {"null", "array"} THEN "object" ELSE x.t

\* !x
Falsy(x) ==
    \/ x.t \in {"null", "undefined"}
    \/ x.t = "string" /\ x.s = ""
    \/ x.t = "number" /\ (IsNaN(x) \/ x.n = 0)
    \/ x.t = "boolean" /\ ~x.b

-----------------------------------------------------------------------------
(* Strings *)

CharAt(s, i) == SubSeq(s, i, i)
Chars(s)     == {CharAt(s, i) : i \in 1..Len(s)}

UpperLetters == "ABCDEFGHIJKLMNOPQRSTUVWXYZ"
LowerLetters == "abcdefghijklmnopqrstuvwxyz"
Digits       == "0123456789"

UpperSet == Chars(UpperLetters)
LowerSet == Chars(LowerLetters)
WordSet  == UpperSet \cup LowerSet \cup Chars(Digits) \cup {"_"}
SpaceSet == {" ", "\t", "\n", "\r"}

LowerOf == [c \in UpperSet |->
              CharAt(LowerLetters, CHOOSE i \in 1..Len(UpperLetters) : CharAt(UpperLetters, i) = c)]

ToLowerChar(c) == IF c \in UpperSet THEN LowerOf[c] ELSE c

RECURSIVE ToLower(_)
ToLower(s) == IF s = "" THEN "" ELSE ToLowerChar(Head(s)) \o ToLower(Tail(s))

StartsWithAt(s, i, lit) ==
    /\ i + Len(lit) - 1 <= Len(s)
    /\ SubSeq(s, i, i + Len(lit) - 1) = lit

SetMax(S) == CHOOSE x \in S : \A y \in S : y <= x
SetMin(S) == CHOOSE x \in S : \A y \in S : x <= y

-----------------------------------------------------------------------------
(* Regular expressions.                                                    *)
(* A pattern is a sequence of items; MatchFrom gives the position after    *)
(* the match that backtracking finds first, or -1.                         *)

Class(set)    == [neg |-> FALSE, set |-> set]
NotClass(set) == [neg |-> TRUE, set |-> set]
Dot    == NotClass({"\n", "\r"})          \* .
Space  == Class(SpaceSet)                 \* \s
Word   == Class(WordSet)                  \* \w
InClass(c, cls) == (c \in cls.set) # cls.neg

Lit(s)            == [k |-> "lit", s |-> s]
Rep(cls, lo, hi)  == [k |-> "rep", c |-> cls, lo |-> lo, hi |-> hi]   \* hi = -1: no upper limit
One(cls)          == Rep(cls, 1, 1)
Opt(cls)          == Rep(cls, 0, 1)       \* x?
Plus(cls)         == Rep(cls, 1, -1)      \* x+
Star(cls)         == Rep(cls, 0, -1)      \* x*
NotAhead(p)       == [k |-> "nla", p |-> p]      \* (?!p)
GroupStar(p)      == [k |-> "gstar", p |-> p]    \* (?:p)*
Alt(ps)           == [k |-> "alt", ps |-> ps]    \* (?:p1|p2|...)
WordBoundary      == [k |-> "wb"]                \* \b
LineStart         == [k |-> "bol"]               \* ^

\* Case folding of a pattern for the i flag (the subject is folded too).
RECURSIVE FoldItems(_)
FoldItem(it) ==
    CASE it.k = "lit"   -> Lit(ToLower(it.s))
      [] it.k = "rep"   -> Rep([neg |-> it.c.neg, set |-> {ToLowerChar(c) : c \in it.c.set}],
                               it.lo, it.hi)
      [] it.k = "nla"   -> NotAhead(FoldItems(it.p))
      [] it.k = "gstar" -> GroupStar(FoldItems(it.p))
      [] it.k = "alt"   -> Alt([j \in 1..Len(it.ps) |-> FoldItems(it.ps[j])])
      [] OTHER          -> it
FoldItems(p) == [j \in 1..Len(p) |-> FoldItem(p[j])]

\* /items/flags ; flags is "", "i", "g" or "gi"
Regex(items, flags) ==
    LET ci == flags \in {"i", "gi"}
    IN  [items |-> IF ci THEN FoldItems(items) ELSE items, ci |-> ci]

RECURSIVE RunLen(_, _, _, _)
\* number of consecutive characters of class cls from position i, at most hi (hi = -1: any)
RunLen(cls, s, i, hi) ==
    IF hi # 0 /\ i <= Len(s) /\ InClass(CharAt(s, i), cls)
    THEN 1 + RunLen(cls, s, i + 1, IF hi = -1 THEN -1 ELSE hi - 1)
    ELSE 0

IsWordAt(s, i) == i >= 1 /\ i <= Len(s) /\ CharAt(s, i) \in WordSet

RECURSIVE MatchFrom(_, _, _)
RECURSIVE FirstAlt(_, _, _, _, _)
FirstAlt(ps, j, rest, s, i) ==
    IF j > Len(ps) THEN -1
    ELSE LET e == MatchFrom(ps[j] \o rest, s, i)
         IN  IF e # -1 THEN e ELSE FirstAlt(ps, j + 1, rest, s, i)

MatchFrom(p, s, i) ==
    IF p = <<>> THEN i
    ELSE LET it == Head(p)
             rest == Tail(p)
         IN  CASE it.k = "lit" ->
                    IF StartsWithAt(s, i, it.s) THEN MatchFrom(rest, s, i + Len(it.s)) ELSE -1
               [] it.k = "rep" ->
                    \* greedy: the longest run for which the rest still matches
                    LET run == RunLen(it.c, s, i, it.hi)
                        ok  == {n \in it.lo..run : MatchFrom(rest, s, i + n) # -1}
                    IN  IF ok = {} THEN -1 ELSE MatchFrom(rest, s, i + SetMax(ok))
               [] it.k = "nla" ->
                    IF MatchFrom(it.p, s, i) # -1 THEN -1 ELSE MatchFrom(rest, s, i)
               [] it.k = "gstar" ->
                    \* one more round of the group first, then the rest
                    LET more == MatchFrom(it.p \o p, s, i)
                    IN  IF more # -1 THEN more ELSE MatchFrom(rest, s, i)
               [] it.k = "alt" -> FirstAlt(it.ps, 1, rest, s, i)
               [] it.k = "wb" ->
                    IF IsWordAt(s, i - 1) # IsWordAt(s, i) THEN MatchFrom(rest, s, i) ELSE -1
               [] it.k = "bol" ->
                    IF i = 1 THEN MatchFrom(rest, s, i) ELSE -1

Subject(re, s) == IF re.ci THEN ToLower(s) ELSE s

\* re.test(s)
MatchesSomewhere(items, subj) ==
    \E i \in 1..(Len(subj) + 1) : MatchFrom(items, subj, i) # -1
RegexTest(re, s) == MatchesSomewhere(re.items, Subject(re, s))

RECURSIVE ReplaceFrom(_, _, _, _)
ReplaceFrom(re, s, subj, i) ==
    IF i > Len(s) THEN ""
    ELSE LET e == MatchFrom(re.items, subj, i)
         IN  IF e > i THEN ReplaceFrom(re, s, subj, e)
             ELSE CharAt(s, i) \o ReplaceFrom(re, s, subj, i + 1)

\* s.replace(re, '') with the g flag (no pattern here matches the empty string)
RegexRemoveAll(re, s) == ReplaceFrom(re, s, Subject(re, s), 1)

RECURSIVE MatchAllFrom(_, _, _)
MatchAllFrom(re, s, i) ==
    IF i > Len(s) THEN <<>>
    ELSE LET e == MatchFrom(re.items, s, i)
         IN  IF e > i THEN <<SubSeq(s, i, e - 1)>> \o MatchAllFrom(re, s, e)
             ELSE MatchAllFrom(re, s, i + 1)

\* s.match(re) || [] with the g flag, for a case-sensitive pattern
RegexMatchAll(re, s) == MatchAllFrom(re, s, 1)

-----------------------------------------------------------------------------
(* preload.js: channel whitelists *)

ALLOWED_INVOKE_CHANNELS == <<
    "run-hyperv-cmd", "execute-powershell", "get-vms", "get-vm-details", "start-vm",
    "stop-vm", "restart-vm", "shutdown-vm", "turnoff-vm", "delete-vm", "edit-vm",
    "launch-vmconnect", "check-hyperv",
    "get-physical-disks", "get-storage-pools", "get-volumes", "get-virtual-disks",
    "delete-virtual-disk", "get-vhds", "create-vhd", "attach-vhd", "detach-vhd",
    "resize-vhd", "convert-vhd", "compact-vhd", "delete-vhd", "get-vm-stores",
    "optimize-disk", "check-disk-health",
    "get-iso-library", "add-iso", "remove-iso", "browse-for-iso",
    "get-checkpoints", "create-checkpoint", "apply-checkpoint", "remove-checkpoint",
    "get-cluster-nodes", "get-cluster-status", "live-migrate-vm",
    "get-system-stats", "get-host-info", "get-resource-path", "get-app-icon-base64",
    "show-open-dialog", "show-save-dialog",
    "get-qos-policies", "create-qos-policy", "edit-qos-policy", "delete-qos-policy" >>

ALLOWED_SEND_CHANNELS == << "app-ready", "window-minimize", "window-maximize", "window-close" >>

ALLOWED_RECEIVE_CHANNELS == << "vm-status-update", "task-progress", "notification" >>

\* Array.prototype.includes on an array of strings, for a value of any kind
Includes(list, x) == \E j \in 1..Len(list) : x = Str(list[j])

\* isValidChannel(channel, allowedChannels)
isValidChannelAnyCase(channel, allowedChannels) ==
    TypeOf(channel) = "string" /\ Includes(allowedChannels, Str(ToLower(channel.s)))
isValidChannel(channel, allowedChannels) ==
    TypeOf(channel) = "string" /\ Includes(allowedChannels, channel)

-----------------------------------------------------------------------------
(* preload.js: sanitizeInput *)

\* /<script\b[^<]*(?:(?!<\/script>)<[^<]*)*<\/script>/gi
ScriptBlockRe ==
    Regex(<< Lit("<script"), WordBoundary, Star(NotClass({"<"})),
             GroupStar(<< NotAhead(<< Lit("</script>") >>), Lit("<"), Star(NotClass({"<"})) >>),
             Lit("</script>") >>, "gi")

\* /javascript:/gi
JavascriptRe == Regex(<< Lit("javascript:") >>, "gi")

\* /on\w+\s*=/gi
EventHandlerRe == Regex(<< Lit("on"), Plus(Word), Star(Space), Lit("=") >>, "gi")

sanitizeString(s) ==
    RegexRemoveAll(EventHandlerRe, RegexRemoveAll(JavascriptRe, RegexRemoveAll(ScriptBlockRe, s)))

RECURSIVE sanitizeInput(_)
sanitizeInput(x) ==
    IF TypeOf(x) = "string" THEN Str(sanitizeString(x.s))
    ELSE IF TypeOf(x) = "object" /\ x.t # "null"
         THEN IF x.t = "array"
              THEN Arr([j \in 1..Len(x.a) |-> sanitizeInput(x.a[j])])
              ELSE Obj(x.k, [j \in 1..Len(x.v) |-> sanitizeInput(x.v[j])])
         ELSE x

-----------------------------------------------------------------------------
(* preload.js: the window.api bridge.                                      *)
(* A request is one call of window.api.invoke / send / on / once.  Its     *)
(* synchronous part (channel check, sanitizing, the call of the real       *)
(* ipcRenderer) runs to completion as one step; trace lists the stages it  *)
(* went through and ipc the calls it made on the real ipcRenderer.         *)

NoError == [message |-> ""]
NotAllowed(channel) == [message |-> "IPC channel is not allowed", channel |-> channel]

IpcCall(method, channel, args) == [method |-> method, channel |-> channel, args |-> args]

Request(api, channel, args, trace, ipc, error, unsub) ==
    [api |-> api, channel |-> channel, args |-> args, trace |-> trace,
     phase |-> trace[Len(trace)], ipc |-> ipc, error |-> error,
     unsub |-> unsub, registered |-> (ipc # <<>> /\ api \in {"on", "once"})]

\* args.map(sanitizeInput)
SanitizeArgsRaw(args) == args
SanitizeArgs(args) == [j \in 1..Len(args) |-> sanitizeInput(args[j])]

\* api.invoke, up to the await of ipcRenderer.invoke
apiInvokeUnchecked(channel, args) ==
    Request("invoke", channel, args, <<"Idle", "Sanitizing", "Executing">>,
            <<IpcCall("invoke", channel, SanitizeArgs(args))>>, NoError, "none")
apiInvoke(channel, args) ==
    IF ~isValidChannel(channel, ALLOWED_INVOKE_CHANNELS)
    THEN Request("invoke", channel, args, <<"Idle", "Validating", "Rejected">>,
                 <<>>, NotAllowed(channel), "none")
    ELSE Request("invoke", channel, args, <<"Idle", "Validating", "Sanitizing", "Executing">>,
                 <<IpcCall("invoke", channel, SanitizeArgs(args))>>, NoError, "none")

\* api.send
apiSendThrows(channel, args) ==
    IF ~isValidChannel(channel, ALLOWED_SEND_CHANNELS)
    THEN Request("send", channel, args, <<"Idle", "Validating", "Threw">>,
                 <<>>, NotAllowed(channel), "none")
    ELSE Request("send", channel, args, <<"Idle", "Validating", "Sanitizing", "Returned">>,
                 <<IpcCall("send", channel, SanitizeArgs(args))>>, NoError, "none")
apiSend(channel, args) ==
    IF ~isValidChannel(channel, ALLOWED_SEND_CHANNELS)
    THEN Request("send", channel, args, <<"Idle", "Validating", "Returned">>,
                 <<>>, NoError, "none")
    ELSE Request("send", channel, args, <<"Idle", "Validating", "Sanitizing", "Returned">>,
                 <<IpcCall("send", channel, SanitizeArgs(args))>>, NoError, "none")

\* api.on: returns () => {} or the closure that removes the subscription
apiOn(channel) ==
    IF ~isValidChannel(channel, ALLOWED_RECEIVE_CHANNELS)
    THEN Request("on", channel, <<>>, <<"Idle", "Validating", "Returned">>,
                 <<>>, NoError, "noop")
    ELSE Request("on", channel, <<>>, <<"Idle", "Validating", "Returned">>,
                 <<IpcCall("on", channel, <<>>)>>, NoError, "removeListener")

\* api.once: returns undefined either way
apiOnce(channel) ==
    IF ~isValidChannel(channel, ALLOWED_RECEIVE_CHANNELS)
    THEN Request("once", channel, <<>>, <<"Idle", "Validating", "Returned">>,
                 <<>>, NoError, "none")
    ELSE Request("once", channel, <<>>, <<"Idle", "Validating", "Returned">>,
                 <<IpcCall("once", channel, <<>>)>>, NoError, "none")

\* the closure api.on returned is called: ipcRenderer.removeListener(channel, subscription),
\* which removes the subscription if it is still there, or nothing for () => {}
Unsubscribed(r) ==
    IF r.unsub = "removeListener" THEN [r EXCEPT !.registered = FALSE] ELSE r

\* main.js: every channel with an ipcMain.handle registration
RegisteredHandlers == {
    "run-hyperv-cmd", "execute-powershell", "get-vms", "browse-for-iso", "check-hyperv",
    "get-resource-path", "get-app-icon-base64", "get-system-stats", "start-vm",
    "shutdown-vm", "stop-vm", "restart-vm", "turnoff-vm", "launch-vmconnect",
    "get-vm-stores", "get-physical-disks", "get-virtual-disks", "create-vhd",
    "attach-vhd", "delete-virtual-disk", "delete-vhd", "resize-vhd", "convert-vhd",
    "compact-vhd", "get-storage-pools", "create-storage-pool", "get-volumes",
    "get-checkpoints", "create-checkpoint", "remove-checkpoint", "apply-checkpoint",
    "export-checkpoint", "get-iso-library", "add-iso-to-library", "remove-iso",
    "get-qos-policies", "create-qos-policy", "edit-vm", "get-vm-details",
    "optimize-disk", "check-disk-health", "send-ai-message" }

\* the renderer: every channel its code passes to ipcRenderer.invoke, the wrapper
\* around window.api.invoke
RendererInvokeChannels == {
    "get-app-icon-base64", "check-hyperv", "shutdown-vm", "turnoff-vm",
    "launch-vmconnect", "get-system-stats", "get-vms", "start-vm", "stop-vm",
    "run-hyperv-cmd", "get-checkpoints", "create-checkpoint", "apply-checkpoint",
    "remove-checkpoint", "get-vm-details", "browse-for-iso", "edit-vm", "get-vm-stores",
    "get-physical-disks", "optimize-disk", "check-disk-health", "execute-powershell",
    "get-storage-pools", "get-volumes", "get-virtual-disks", "create-vhd", "attach-vhd",
    "delete-virtual-disk", "resize-vhd", "convert-vhd", "compact-vhd",
    "export-checkpoint", "get-iso-library", "add-iso-to-library", "remove-iso",
    "get-qos-policies", "create-qos-policy", "restart-vm", "send-ai-message" }

MaxRequests == 2

BridgeChannels == {
    Str("run-hyperv-cmd"), Str("delete-vm"), Str("app-ready"), Str("task-progress"),
    Str("create-storage-pool"), Str("export-checkpoint"), Str("add-iso-to-library"),
    Str("send-ai-message"), Str("drop-database"), Str("GET-VMS"), Num(1) }

BridgeArgs == {
    << Str("Get-VM <script>alert(1)</script>") >>,
    << Str("javascript:x"), Num(7) >> }

InitBridge ==
    /\ requests = <<>>
    /\ handlerRuns = {}

InitSanitizeIdle ==
    /\ input = Undefined
    /\ output = Undefined
    /\ twice = Undefined

InitMainIdle ==
    /\ commandHistory = <<>>
    /\ now = 0
    /\ calls = <<>>
    /\ procs = <<>>
    /\ rateLog = <<>>

InitTasksIdle ==
    /\ tasksList = <<>>
    /\ taskIdCounter = 0
    /\ timers = <<>>
    /\ ops = <<>>

\* the UI calls window.api.invoke (directly or through the renderer's ipcRenderer wrapper)
UiInvoke(channel, args) ==
    /\ Len(requests) < MaxRequests
    /\ requests' = Append(requests, apiInvoke(channel, args))
    /\ UNCHANGED <<handlerRuns, sanitizeVars, mainVars, taskVars>>

UiSend(channel, args) ==
    /\ Len(requests) < MaxRequests
    /\ requests' = Append(requests, apiSend(channel, args))
    /\ UNCHANGED <<handlerRuns, sanitizeVars, mainVars, taskVars>>

UiOn(channel) ==
    /\ Len(requests) < MaxRequests
    /\ requests' = Append(requests, apiOn(channel))
    /\ UNCHANGED <<handlerRuns, sanitizeVars, mainVars, taskVars>>

UiOnce(channel) ==
    /\ Len(requests) < MaxRequests
    /\ requests' = Append(requests, apiOnce(channel))
    /\ UNCHANGED <<handlerRuns, sanitizeVars, mainVars, taskVars>>

UiUnsubscribe(i) ==
    /\ requests[i].api = "on"
    /\ requests' = [requests EXCEPT ![i] = Unsubscribed(@)]
    /\ UNCHANGED <<handlerRuns, sanitizeVars, mainVars, taskVars>>

\* ipcMain runs the handler registered for the channel; the awaited promise settles
MainHandle(i, ok) ==
    /\ requests[i].phase = "Executing"
    /\ requests[i].channel \in {Str(h) : h \in RegisteredHandlers}
    /\ handlerRuns' = handlerRuns \cup {requests[i].channel.s}
    /\ requests' = [requests EXCEPT ![i].phase = IF ok THEN "Resolved" ELSE "Failed",
                                    ![i].trace = Append(@, IF ok THEN "Resolved" ELSE "Failed"),
                                    ![i].error = IF ok THEN NoError
                                                 ELSE [message |-> "Error invoking remote method"]]
    /\ UNCHANGED <<sanitizeVars, mainVars, taskVars>>

\* no handler is registered for the channel: ipcRenderer.invoke rejects, api.invoke rethrows
MainNoHandler(i) ==
    /\ requests[i].phase = "Executing"
    /\ requests[i].channel \notin {Str(h) : h \in RegisteredHandlers}
    /\ requests' = [requests EXCEPT ![i].phase = "Failed",
                                    ![i].trace = Append(@, "Failed"),
                                    ![i].error = [message |-> "No handler registered"]]
    /\ UNCHANGED <<handlerRuns, sanitizeVars, mainVars, taskVars>>

NextBridge ==
    \/ \E c \in BridgeChannels, a \in BridgeArgs : UiInvoke(c, a)
    \/ \E c \in BridgeChannels, a \in BridgeArgs : UiSend(c, a)
    \/ \E c \in BridgeChannels : UiOn(c)
    \/ \E c \in BridgeChannels : UiOnce(c)
    \/ \E i \in 1..Len(requests) : UiUnsubscribe(i)
    \/ \E i \in 1..Len(requests), ok \in BOOLEAN : MainHandle(i, ok)
    \/ \E i \in 1..Len(requests) : MainNoHandler(i)

BridgeInit == InitBridge /\ InitSanitizeIdle /\ InitMainIdle /\ InitTasksIdle

SpecBridge == BridgeInit /\ [][NextBridge]_vars

-----------------------------------------------------------------------------
(* sanitizeInput applied to a value, and again to its own result *)

NotYet == [t |-> "unset"]

MaxFragments == 3

Fragments == {
    "java", "script:", "javascript:", "JAVASCRIPT:", "<script>", "</script>", "<scr", "ipt>",
    "alert(1)", "onclick=", "o", "nclick=", "on", " = x" }

RECURSIVE Concatenations(_)
Concatenations(n) ==
    IF n = 0 THEN {""}
    ELSE LET shorter == Concatenations(n - 1)
         IN  shorter \cup {s \o f : s \in shorter, f \in Fragments}

NestedStrings == {"a", "javajavascript:script:", "<script>alert(1)</script>b", "onclick=alert(1)"}

SanitizeInputs ==
    {Str(s) : s \in Concatenations(MaxFragments)}
    \cup {Arr(<<Str(a), Num(5), Str(b)>>) : a, b \in NestedStrings}
    \cup {Obj(<<"name", "onload=", "list">>, <<Str(a), Bool(TRUE), Arr(<<Str(b), Null>>)>>) :
             a, b \in NestedStrings}
    \cup {Num(0), Num(42), Bool(FALSE), Bool(TRUE), Null, Undefined, Arr(<<>>)}

SanitizeInit ==
    /\ input \in SanitizeInputs
    /\ output = NotYet
    /\ twice = NotYet
    /\ InitBridge
    /\ InitMainIdle
    /\ InitTasksIdle

Sanitize ==
    /\ output = NotYet
    /\ output' = sanitizeInput(input)
    /\ UNCHANGED <<input, twice, bridgeVars, mainVars, taskVars>>

SanitizeAgain ==
    /\ output # NotYet
    /\ twice = NotYet
    /\ twice' = sanitizeInput(output)
    /\ UNCHANGED <<input, output, bridgeVars, mainVars, taskVars>>

NextSanitize == Sanitize \/ SanitizeAgain

SpecSanitize == SanitizeInit /\ [][NextSanitize]_vars


-----------------------------------------------------------------------------
(* main.js: command execution safeguards *)

ALLOWED_CMDLETS == <<
    "Get-VM", "Start-VM", "Stop-VM", "Restart-VM", "Remove-VM", "New-VM",
    "Set-VM", "Get-VMHost", "Set-VMHost", "Suspend-VM", "Resume-VM",
    "Save-VM", "Export-VM", "Import-VM", "Measure-VM", "Compare-VM",
    "Get-VMProcessor", "Set-VMProcessor", "Get-VMMemory", "Set-VMMemory",
    "Get-VMNetworkAdapter", "Add-VMNetworkAdapter", "Remove-VMNetworkAdapter",
    "Set-VMNetworkAdapter", "Get-VMHardDiskDrive", "Add-VMHardDiskDrive",
    "Remove-VMHardDiskDrive", "Set-VMHardDiskDrive", "Get-VMDvdDrive",
    "Add-VMDvdDrive", "Remove-VMDvdDrive", "Set-VMDvdDrive",
    "Get-VMFirmware", "Set-VMFirmware", "Get-VMBios", "Set-VMBios",
    "Get-VMIntegrationService", "Enable-VMIntegrationService", "Disable-VMIntegrationService",
    "Get-VMSnapshot", "Checkpoint-VM", "Remove-VMSnapshot", "Restore-VMSnapshot",
    "Rename-VMSnapshot", "Get-VMCheckpoint", "Remove-VMCheckpoint", "Restore-VMCheckpoint",
    "Get-VHD", "New-VHD", "Resize-VHD", "Convert-VHD", "Optimize-VHD",
    "Mount-VHD", "Dismount-VHD", "Test-VHD", "Set-VHD", "Merge-VHD",
    "Get-VMStoragePath", "Get-PhysicalDisk", "Get-Disk", "Get-Partition",
    "Get-Volume", "Get-StoragePool", "Optimize-Volume",
    "Get-VMSwitch", "New-VMSwitch", "Remove-VMSwitch", "Set-VMSwitch",
    "Get-VMSwitchExtension", "Get-NetAdapter", "Get-NetIPAddress",
    "Get-Cluster", "Get-ClusterNode", "Get-ClusterGroup", "Get-ClusterResource",
    "Move-ClusterVirtualMachineRole", "Get-ClusterSharedVolume",
    "Get-IscsiTarget", "Get-IscsiSession", "Get-IscsiConnection",
    "Connect-IscsiTarget", "Disconnect-IscsiTarget", "Get-InitiatorPort",
    "Get-MSDSMSupportedHW", "Get-MSDSMGlobalDefaultLoadBalancePolicy",
    "Get-Counter", "Get-CimInstance", "Get-WmiObject", "Get-Process",
    "Get-Module", "Get-Command", "Get-Service", "Get-ChildItem",
    "Test-Path", "Get-Content", "Get-Item", "Get-ItemProperty",
    "Measure-Object", "Select-Object", "Where-Object", "ForEach-Object",
    "Sort-Object", "Format-List", "ConvertTo-Json", "Write-Output" >>

AnyRun    == Star(Dot)                       \* .*
Spaces == Plus(Space)                     \* \s+
Letter == Class(UpperSet)                 \* [A-Z], with the i flag any letter

BLOCKED_PATTERNS == <<
    \* System destruction
    Regex(<< Lit("Remove-Item"), Spaces, AnyRun, Star(Space), Lit("-Recurse") >>, "i"),
    Regex(<< Lit("Remove-Item"), Spaces, Opt(Class({"'", "\""})), One(Letter), Lit(":\\") >>, "i"),
    Regex(<< Lit("del"), Spaces, Lit("/"), One(Class({"s", "q", "f"})) >>, "i"),
    Regex(<< Lit("rmdir"), Spaces, Lit("/s") >>, "i"),
    Regex(<< Lit("format"), Spaces, One(Class(LowerSet)), Lit(":") >>, "i"),
    \* Registry manipulation (except read)
    Regex(<< Lit("New-ItemProperty") >>, "i"),
    Regex(<< Lit("Set-ItemProperty"), AnyRun, Lit("HKLM") >>, "i"),
    Regex(<< Lit("Set-ItemProperty"), AnyRun, Lit("HKCU"), AnyRun, Lit("\\Run") >>, "i"),
    Regex(<< Lit("Remove-ItemProperty"), AnyRun, Lit("HKLM") >>, "i"),
    Regex(<< Lit("reg"), Spaces, Lit("add") >>, "i"),
    Regex(<< Lit("reg"), Spaces, Lit("delete") >>, "i"),
    \* Persistence mechanisms
    Regex(<< Lit("New-ScheduledTask") >>, "i"),
    Regex(<< Lit("Register-ScheduledTask") >>, "i"),
    Regex(<< Lit("schtasks"), Spaces, Lit("/create") >>, "i"),
    Regex(<< Lit("Startup"), AnyRun, Lit(".lnk") >>, "i"),
    Regex(<< Lit("\\Start Menu\\Programs\\Startup") >>, "i"),
    \* Network exfiltration
    Regex(<< Lit("Invoke-WebRequest"), NotAhead(<< AnyRun, Lit("localhost") >>) >>, "i"),
    Regex(<< Lit("Invoke-RestMethod"), NotAhead(<< AnyRun, Lit("localhost") >>) >>, "i"),
    Regex(<< Lit("Start-BitsTransfer") >>, "i"),
    Regex(<< Lit("[Net.WebClient]") >>, "i"),
    Regex(<< Lit("curl"), Spaces >>, "i"),
    Regex(<< Lit("wget"), Spaces >>, "i"),
    \* Credential theft
    Regex(<< Lit("Get-Credential") >>, "i"),
    Regex(<< Lit("ConvertTo-SecureString") >>, "i"),
    Regex(<< Lit("mimikatz") >>, "i"),
    Regex(<< Lit("-Credential") >>, "i"),
    \* Code execution/bypass
    Regex(<< Lit("Invoke-Expression") >>, "i"),
    Regex(<< Lit("IEX"), Star(Space), Lit("(") >>, "i"),
    Regex(<< Lit("Invoke-Command"), AnyRun, Lit("-ScriptBlock") >>, "i"),
    Regex(<< Lit("[System.Reflection") >>, "i"),
    Regex(<< Lit("Add-Type"), AnyRun, Lit("-TypeDefinition") >>, "i"),
    Regex(<< Lit("New-Object"), AnyRun, Lit("Net.Sockets") >>, "i"),
    Regex(<< Lit("$ExecutionContext") >>, "i"),
    Regex(<< Lit("DownloadString") >>, "i"),
    Regex(<< Lit("DownloadFile") >>, "i"),
    Regex(<< Lit("EncodedCommand") >>, "i"),
    Regex(<< Lit("-enc"), Spaces >>, "i"),
    Regex(<< Lit("FromBase64String") >>, "i"),
    \* Service/process manipulation (except Get)
    Regex(<< Lit("Stop-Service"), NotAhead(<< AnyRun, Lit("vmms") >>) >>, "i"),
    Regex(<< Lit("Remove-Service") >>, "i"),
    Regex(<< Lit("New-Service") >>, "i"),
    Regex(<< Lit("Stop-Process"), NotAhead(<< AnyRun, Lit("vmconnect") >>) >>, "i"),
    Regex(<< Lit("Start-Process"), NotAhead(<< AnyRun, Lit("vmconnect") >>) >>, "i"),
    \* Firewall manipulation
    Regex(<< Lit("Set-NetFirewallProfile"), AnyRun, Lit("-Enabled"), AnyRun, Lit("False") >>, "i"),
    Regex(<< Lit("Disable-NetFirewallRule") >>, "i"),
    Regex(<< Lit("netsh"), AnyRun, Lit("firewall"), AnyRun, Lit("disable") >>, "i"),
    \* Antivirus manipulation
    Regex(<< Lit("Set-MpPreference"), AnyRun, Lit("-Disable") >>, "i"),
    Regex(<< Lit("Uninstall"), AnyRun, Lit("Defender") >>, "i"),
    \* Dangerous paths
    Regex(<< Lit("\\Windows\\System32\\config") >>, "i"),
    Regex(<< Lit("\\Windows\\System32\\drivers") >>, "i"),
    Regex(<< Lit("\\Windows\\SysWOW64") >>, "i") >>

RATE_LIMIT_WINDOW == 1000
RATE_LIMIT_MAX == 10

RECURSIVE DropOld(_, _)
\* while (commandHistory.length > 0 && commandHistory[0] < now - RATE_LIMIT_WINDOW) shift()
DropOld(history, t) ==
    IF Len(history) > 0 /\ history[1] < t - RATE_LIMIT_WINDOW
    THEN DropOld(Tail(history), t)
    ELSE history

\* the limit taken one too high
isRateLimitedOffByOne(history, t) ==
    LET kept == DropOld(history, t)
    IN  IF Len(kept) > RATE_LIMIT_MAX
        THEN [limited |-> TRUE, history |-> kept]
        ELSE [limited |-> FALSE, history |-> Append(kept, t)]

\* an isRateLimited that checks the history and never records the call
isRateLimitedUnrecorded(history, t) ==
    LET kept == DropOld(history, t)
    IN  [limited |-> Len(kept) >= RATE_LIMIT_MAX, history |-> kept]

\* an isRateLimited that records the refused calls too
isRateLimitedRecordsRefused(history, t) ==
    LET kept == DropOld(history, t)
    IN  [limited |-> Len(kept) >= RATE_LIMIT_MAX, history |-> Append(kept, t)]

\* isRateLimited(): the value returned and the history left behind
isRateLimited(history, t) ==
    LET kept == DropOld(history, t)
    IN  IF Len(kept) >= RATE_LIMIT_MAX
        THEN [limited |-> TRUE, history |-> kept]
        ELSE [limited |-> FALSE, history |-> Append(kept, t)]

\* /([A-Z][a-z]+-[A-Z][a-zA-Z]+)/g
cmdletPattern ==
    Regex(<< One(Class(UpperSet)), Plus(Class(LowerSet)), Lit("-"),
             One(Class(UpperSet)), Plus(Class(UpperSet \cup LowerSet)) >>, "g")

\* /^\s*\$[a-z]/i
AssignmentRe == Regex(<< LineStart, Star(Space), Lit("$"), One(Class(LowerSet)) >>, "i")

\* /ConvertTo-Json|Write-Output/i
FormattingRe == Regex(<< Alt(<< <<Lit("ConvertTo-Json")>>, <<Lit("Write-Output")>> >>) >>, "i")

\* /^(Get-|Select-|Where-|ForEach-|Sort-|Format-|Measure-|Out-|Write-)/i
ReadVerbRe ==
    Regex(<< LineStart,
             Alt(<< <<Lit("Get-")>>, <<Lit("Select-")>>, <<Lit("Where-")>>, <<Lit("ForEach-")>>,
                    <<Lit("Sort-")>>, <<Lit("Format-")>>, <<Lit("Measure-")>>, <<Lit("Out-")>>,
                    <<Lit("Write-")>> >>) >>, "i")

\* the first entry of BLOCKED_PATTERNS that pattern.test(command) accepts, or 0
FirstBlocked(s) ==
    LET hits == {j \in 1..Len(BLOCKED_PATTERNS) : RegexTest(BLOCKED_PATTERNS[j], s)}
    IN  IF hits = {} THEN 0 ELSE SetMin(hits)

\* command.match(cmdletPattern) || []
FoundCmdlets(s) == RegexMatchAll(cmdletPattern, s)

\* the cmdlets the loop over foundCmdlets reports with console.warn
UnrecognizedCmdlets(s) ==
    LET found == FoundCmdlets(s)
    IN  {found[j] : j \in {j \in 1..Len(found) :
                              /\ \A a \in 1..Len(ALLOWED_CMDLETS) : ALLOWED_CMDLETS[a] # found[j]
                              /\ ~RegexTest(ReadVerbRe, found[j])}}

InvalidVerdict == [safe |-> FALSE, reason |-> "Invalid command"]
SafeVerdict    == [safe |-> TRUE]

\* the category comment over the j-th entry of BLOCKED_PATTERNS
PatternCategory(j) ==
    CASE j <= 5  -> "System destruction"
      [] j <= 11 -> "Registry manipulation"
      [] j <= 16 -> "Persistence mechanisms"
      [] j <= 22 -> "Network exfiltration"
      [] j <= 26 -> "Credential theft"
      [] j <= 38 -> "Code execution/bypass"
      [] j <= 43 -> "Service/process manipulation"
      [] j <= 46 -> "Firewall manipulation"
      [] j <= 48 -> "Antivirus manipulation"
      [] OTHER   -> "Dangerous paths"

\* return { safe: false, reason: 'Command contains blocked pattern' } for the j-th pattern
BlockedVerdictByCategory(j) == [safe |-> FALSE, reason |-> PatternCategory(j)]
BlockedVerdict(j) == [safe |-> FALSE, reason |-> "Command contains blocked pattern"]

\* the loop over foundCmdlets and the return after it
CmdletVerdictStrict(s) ==
    IF UnrecognizedCmdlets(s) # {}
    THEN [safe |-> FALSE, reason |-> "Unrecognized cmdlet"]
    ELSE SafeVerdict
CmdletVerdict(s) == SafeVerdict

\* isCommandSafe(command)
isCommandSafeAllowFirst(command) ==
    IF Falsy(command) \/ TypeOf(command) # "string" THEN InvalidVerdict
    ELSE LET s == command.s
             blocked == FirstBlocked(s)
         IN  IF Len(FoundCmdlets(s)) > 0 /\ UnrecognizedCmdlets(s) = {} THEN SafeVerdict
             ELSE IF blocked # 0 THEN BlockedVerdict(blocked)
             ELSE SafeVerdict
isCommandSafe(command) ==
    IF Falsy(command) \/ TypeOf(command) # "string" THEN InvalidVerdict
    ELSE LET s == command.s
             blocked == FirstBlocked(s)
         IN  IF blocked # 0 THEN BlockedVerdict(blocked)
             ELSE IF /\ Len(FoundCmdlets(s)) = 0
                     /\ (RegexTest(AssignmentRe, s) \/ RegexTest(FormattingRe, s))
                  THEN SafeVerdict
                  ELSE CmdletVerdict(s)


\* the warnings isCommandSafe writes for cmdlets outside ALLOWED_CMDLETS
WarnedCmdlets(command) ==
    IF Falsy(command) \/ TypeOf(command) # "string" THEN {}
    ELSE IF FirstBlocked(command.s) # 0 THEN {}
    ELSE UnrecognizedCmdlets(command.s)

\* The character U+0000, which a TLA+ string cannot hold: the tilde stands for it.  Like
\* U+0000 it is neither a word character nor white space, and no pattern names it.
NulChar == "~"

RECURSIVE RemoveNul(_)
\* command.replace(/\0/g, '')
RemoveNul(s) ==
    IF s = "" THEN ""
    ELSE (IF Head(s) = NulChar THEN "" ELSE Head(s)) \o RemoveNul(Tail(s))

\* sanitizeCommand(command)
sanitizeCommand(command) == IF Falsy(command) THEN "" ELSE RemoveNul(command.s)

RECURSIVE EscapeQuotes(_)
\* The PowerShell escape character U+0060, which a TLA+ string cannot hold: the caret
\* stands for it, and no command of the model holds a caret.
EscapeChar == "^"
\* the first replace of cleanCommand: the escape character goes before every double quote
EscapeQuotes(s) ==
    IF s = "" THEN ""
    ELSE (IF Head(s) = "\"" THEN EscapeChar \o "\"" ELSE Head(s)) \o EscapeQuotes(Tail(s))

RECURSIVE JoinLines(_)
\* the second replace of cleanCommand: /\r?\n/g becomes one space
JoinLines(s) ==
    IF s = "" THEN ""
    ELSE IF StartsWithAt(s, 1, "\r\n") THEN " " \o JoinLines(SubSeq(s, 3, Len(s)))
    ELSE IF Head(s) = "\n" THEN " " \o JoinLines(Tail(s))
    ELSE Head(s) \o JoinLines(Tail(s))

CommandLine(command) ==
    "powershell -ExecutionPolicy Bypass -NoProfile -Command \""
        \o JoinLines(EscapeQuotes(sanitizeCommand(command))) \o "\""

RunHypervCmdTimeout == 60000
ExecutePowershellTimeout == 120000

\* a request that reached ipcMain and whose handler has not run yet
Arrived(channel, command) ==
    [channel |-> channel, command |-> command, state |-> "arrived", limited |-> FALSE,
     rateChecked |-> FALSE, verdict |-> NotYet, warned |-> {}, proc |-> 0, exit |-> NotYet,
     reply |-> NotYet]

RateLimitReply(channel) ==
    IF channel = "run-hyperv-cmd"
    THEN [success |-> FALSE, error |-> "Rate limit exceeded. Please slow down."]
    ELSE [success |-> FALSE, output |-> "", error |-> "Rate limit exceeded. Please slow down."]

BlockedReply(channel) ==
    IF channel = "run-hyperv-cmd"
    THEN [success |-> FALSE, error |-> "Command blocked for security reasons"]
    ELSE [success |-> FALSE, output |-> "", error |-> "Command blocked for security reasons"]

\* the handler with the two checks in the other order
HandleCommandSafetyFirst(i, timeout) ==
    LET call == calls[i]
        safetyCheck == isCommandSafe(call.command)
        rate == IF safetyCheck.safe THEN isRateLimited(commandHistory, now)
                ELSE [limited |-> FALSE, history |-> commandHistory]
    IN  /\ call.state = "arrived"
        /\ commandHistory' = rate.history
        /\ rateLog' = IF safetyCheck.safe
                      THEN Append(rateLog, [at |-> now, limited |-> rate.limited])
                      ELSE rateLog
        /\ IF ~safetyCheck.safe
           THEN /\ calls' = [calls EXCEPT ![i].state = "replied",
                                          ![i].verdict = safetyCheck,
                                          ![i].warned = WarnedCmdlets(call.command),
                                          ![i].reply = BlockedReply(call.channel)]
                /\ UNCHANGED procs
           ELSE IF rate.limited
           THEN /\ calls' = [calls EXCEPT ![i].state = "replied", ![i].rateChecked = TRUE,
                                          ![i].limited = TRUE,
                                          ![i].verdict = safetyCheck,
                                          ![i].reply = RateLimitReply(call.channel)]
                /\ UNCHANGED procs
           ELSE /\ procs' = Append(procs, [line |-> CommandLine(call.command),
                                           timeout |-> timeout, call |-> i])
                /\ calls' = [calls EXCEPT ![i].state = "executing", ![i].rateChecked = TRUE,
                                          ![i].verdict = safetyCheck,
                                          ![i].warned = WarnedCmdlets(call.command),
                                          ![i].proc = Len(procs) + 1]
        /\ UNCHANGED <<now, bridgeVars, sanitizeVars, taskVars>>

\* the handler of run-hyperv-cmd or execute-powershell, up to its await of execPromise
HandleCommand(i, timeout) ==
    LET call == calls[i]
        rate == isRateLimited(commandHistory, now)
        safetyCheck == isCommandSafe(call.command)
    IN  /\ call.state = "arrived"
        /\ commandHistory' = rate.history
        /\ rateLog' = Append(rateLog, [at |-> now, limited |-> rate.limited])
        /\ IF rate.limited
           THEN /\ calls' = [calls EXCEPT ![i].state = "replied", ![i].rateChecked = TRUE,
                                          ![i].limited = TRUE,
                                          ![i].reply = RateLimitReply(call.channel)]
                /\ UNCHANGED procs
           ELSE IF ~safetyCheck.safe
           THEN /\ calls' = [calls EXCEPT ![i].state = "replied", ![i].rateChecked = TRUE,
                                          ![i].verdict = safetyCheck,
                                          ![i].warned = WarnedCmdlets(call.command),
                                          ![i].reply = BlockedReply(call.channel)]
                /\ UNCHANGED procs
           ELSE /\ procs' = Append(procs, [line |-> CommandLine(call.command),
                                           timeout |-> timeout, call |-> i])
                /\ calls' = [calls EXCEPT ![i].state = "executing", ![i].rateChecked = TRUE,
                                          ![i].verdict = safetyCheck,
                                          ![i].warned = WarnedCmdlets(call.command),
                                          ![i].proc = Len(procs) + 1]
        /\ UNCHANGED <<now, bridgeVars, sanitizeVars, taskVars>>

\* ipcMain.handle('run-hyperv-cmd', ...)
RunHypervCmd(i) ==
    /\ calls[i].channel = "run-hyperv-cmd"
    /\ HandleCommand(i, RunHypervCmdTimeout)

\* ipcMain.handle('execute-powershell', ...)
ExecutePowershell(i) ==
    /\ calls[i].channel = "execute-powershell"
    /\ HandleCommand(i, ExecutePowershellTimeout)

\* how the child process of execPromise can end: exit code zero; a non-zero exit code or
\* the timeout, both with whatever was written before; a spawn error; an error without
\* a message
ExecOutcomes == {
    [ok |-> TRUE,  message |-> "", stdout |-> "[]", stderr |-> ""],
    [ok |-> TRUE,  message |-> "", stdout |-> "", stderr |-> "warning"],
    [ok |-> FALSE, message |-> "Command failed", stdout |-> "partial", stderr |-> "error"],
    [ok |-> FALSE, message |-> "Command failed", stdout |-> "", stderr |-> ""],
    [ok |-> FALSE, message |-> "spawn powershell ENOENT", stdout |-> "", stderr |-> ""],
    [ok |-> FALSE, message |-> "", stdout |-> "", stderr |-> ""] }

\* error.message || 'Unknown error'
MessageOf(o) == IF o.message = "" THEN "Unknown error" ELSE o.message

\* a catch branch that answers with a fixed text and drops what the process wrote
ExecReplyLossy(channel, o) ==
    IF channel = "run-hyperv-cmd"
    THEN IF o.ok
         THEN [success |-> TRUE, stdout |-> o.stdout, stderr |-> o.stderr]
         ELSE [success |-> FALSE, error |-> "Command failed", stderr |-> "", stdout |-> ""]
    ELSE IF o.ok
         THEN [success |-> TRUE, output |-> o.stdout, error |-> "null"]
         ELSE [success |-> FALSE, output |-> "", error |-> "Command failed"]

\* the rest of the handler, after execPromise settled: the try branch or the catch branch
\* (the text "null" stands for the value null of the error field)
ExecReply(channel, o) ==
    IF channel = "run-hyperv-cmd"
    THEN IF o.ok
         THEN [success |-> TRUE, stdout |-> o.stdout, stderr |-> o.stderr]
         ELSE [success |-> FALSE, error |-> MessageOf(o), stderr |-> o.stderr, stdout |-> o.stdout]
    ELSE IF o.ok
         THEN [success |-> TRUE, output |-> o.stdout, error |-> "null"]
         ELSE [success |-> FALSE, output |-> o.stdout, error |-> MessageOf(o)]

ExecSettle(i, o) ==
    /\ calls[i].state = "executing"
    /\ calls[i].channel \in {"run-hyperv-cmd", "execute-powershell"}
    /\ calls' = [calls EXCEPT ![i].state = "replied", ![i].exit = o,
                               ![i].reply = ExecReply(calls[i].channel, o)]
    /\ UNCHANGED <<commandHistory, now, procs, rateLog, bridgeVars, sanitizeVars, taskVars>>

MaxParts == 2

CommandFragments == {
    "Get-VM | ", "Remove-Item 'C:\\' -Recurse -Force", "whoami ", "$v = 1; ", "Foo-Bar ",
    "write-output 1 " }

RECURSIVE CommandStrings(_)
CommandStrings(n) ==
    IF n = 0 THEN {""}
    ELSE LET shorter == CommandStrings(n - 1)
         IN  shorter \cup {s \o f : s \in shorter, f \in CommandFragments}

OtherCommands == {
    "iex (1)", "Stop-Service x", "Stop-Service x; Get-Service vmms", "Remove-Item x",
    "Remove-Item x\n-Recurse", "Get-VM -Name \"a\"\r\n", "Set-ItemProperty a\nHKLM",
    "ConvertTo-Json", "get-vm", "  $x", "Get-Foo | Restart-Computer",
    "Get-VM -Credential $c", "Remove-Item x -Rec" \o NulChar \o "urse" }

FilterCommands ==
    {Str(s) : s \in CommandStrings(MaxParts) \cup OtherCommands}
    \cup {Num(0), Num(5), Null, Undefined, Bool(TRUE), Arr(<<Str("Get-VM")>>)}

FilterInit ==
    /\ calls \in {<<Arrived(ch, c)>> : ch \in {"run-hyperv-cmd", "execute-powershell"},
                                        c \in FilterCommands}
    /\ commandHistory \in {<<>>, [j \in 1..RATE_LIMIT_MAX |-> 0]}
    /\ now = 0
    /\ procs = <<>>
    /\ rateLog = <<>>
    /\ InitBridge
    /\ InitSanitizeIdle
    /\ InitTasksIdle

NextFilter ==
    \/ \E i \in 1..Len(calls) : RunHypervCmd(i)
    \/ \E i \in 1..Len(calls) : ExecutePowershell(i)

SpecFilter == FilterInit /\ [][NextFilter]_vars


-----------------------------------------------------------------------------
(* The dedicated handlers start-vm and remove-iso *)

\* /[;|&`$(){}\[\]<>]/ (EscapeChar stands for the backtick)
ShellMetaRe ==
    Regex(<< One(Class({";", "|", "&", EscapeChar, "$", "(", ")", "{", "}", "[", "]",
                        "<", ">"})) >>, "")

\* /\.\.\//
TraversalRe == Regex(<< Lit("../") >>, "")

\* /^\s*$/
WhitespaceOnly(s) == \A j \in 1..Len(s) : CharAt(s, j) \in SpaceSet

\* isValidVMName(name)
isValidVMName(name) ==
    IF Falsy(name) \/ TypeOf(name) # "string" THEN FALSE
    ELSE IF Len(name.s) > 100 THEN FALSE
    ELSE /\ ~RegexTest(ShellMetaRe, name.s)
         /\ ~RegexTest(TraversalRe, name.s)
         /\ ~WhitespaceOnly(name.s)

\* /[;|&`$(){}\[\]<>"'\\]/g
DangerousCharRe ==
    Regex(<< One(Class({";", "|", "&", EscapeChar, "$", "(", ")", "{", "}", "[", "]",
                        "<", ">", "\"", "'", "\\"})) >>, "g")

RECURSIVE CollapseSpaces(_)
\* .replace(/\s+/g, ' ')
CollapseSpaces(s) ==
    IF s = "" THEN ""
    ELSE IF Head(s) \in SpaceSet
         THEN LET n == RunLen(Space, s, 1, -1)
              IN  " " \o CollapseSpaces(SubSeq(s, n + 1, Len(s)))
         ELSE Head(s) \o CollapseSpaces(Tail(s))

RECURSIVE TrimStart(_)
TrimStart(s) == IF s # "" /\ Head(s) \in SpaceSet THEN TrimStart(Tail(s)) ELSE s

RECURSIVE TrimEnd(_)
TrimEnd(s) ==
    IF s # "" /\ CharAt(s, Len(s)) \in SpaceSet THEN TrimEnd(SubSeq(s, 1, Len(s) - 1)) ELSE s

\* .trim()
Trim(s) == TrimEnd(TrimStart(s))

\* a sanitizeVMName that removes what isValidVMName rejects and nothing more
sanitizeVMNameKeepQuotes(name) ==
    IF Falsy(name) \/ TypeOf(name) # "string" THEN ""
    ELSE LET t == Trim(CollapseSpaces(RegexRemoveAll(ShellMetaRe, name.s)))
         IN  SubSeq(t, 1, IF Len(t) < 100 THEN Len(t) ELSE 100)

\* sanitizeVMName(name)
sanitizeVMName(name) ==
    IF Falsy(name) \/ TypeOf(name) # "string" THEN ""
    ELSE LET t == Trim(CollapseSpaces(RegexRemoveAll(DangerousCharRe, name.s)))
         IN  SubSeq(t, 1, IF Len(t) < 100 THEN Len(t) ELSE 100)

PowershellLine(cmd) == "powershell -ExecutionPolicy Bypass -NoProfile -Command \"" \o cmd \o "\""

StartVmTimeout == 30000
StartVmCheckTimeout == 10000
NoTimeout == 0

\* ipcMain.handle('start-vm', ...) up to its first await: no call of isRateLimited
StartVm(i) ==
    LET call == calls[i]
        safeName == sanitizeVMName(call.command)
    IN  /\ call.channel = "start-vm"
        /\ call.state = "arrived"
        /\ IF ~isValidVMName(call.command)
           THEN /\ calls' = [calls EXCEPT ![i].state = "replied",
                                          ![i].reply = [success |-> FALSE,
                                                        error |-> "Invalid VM name"]]
                /\ UNCHANGED procs
           ELSE /\ procs' = Append(procs,
                      [line |-> PowershellLine("Start-VM -Name '" \o safeName
                                                   \o "' -ErrorAction Stop"),
                       timeout |-> StartVmTimeout, call |-> i])
                /\ calls' = [calls EXCEPT ![i].state = "executing",
                                          ![i].proc = Len(procs) + 1]
        /\ UNCHANGED <<commandHistory, now, rateLog, bridgeVars, sanitizeVars, taskVars>>

\* start-vm after Start-VM settled: the reply, or in the catch branch the Get-VM check
StartVmSettle(i, o) ==
    LET call == calls[i]
        safeName == sanitizeVMName(call.command)
    IN  /\ call.channel = "start-vm"
        /\ call.state = "executing"
        /\ IF o.ok
           THEN /\ calls' = [calls EXCEPT ![i].state = "replied", ![i].exit = o,
                                          ![i].reply = [success |-> TRUE]]
                /\ UNCHANGED procs
           ELSE /\ procs' = Append(procs,
                      [line |-> PowershellLine("Get-VM -Name '" \o safeName
                                                   \o "' -ErrorAction SilentlyContinue"),
                       timeout |-> StartVmCheckTimeout, call |-> i])
                /\ calls' = [calls EXCEPT ![i].state = "checking", ![i].exit = o,
                                          ![i].proc = Len(procs) + 1]
        /\ UNCHANGED <<commandHistory, now, rateLog, bridgeVars, sanitizeVars, taskVars>>

\* start-vm after the Get-VM check settled
StartVmCheckSettle(i, o) ==
    LET call == calls[i]
        safeName == sanitizeVMName(call.command)
    IN  /\ call.channel = "start-vm"
        /\ call.state = "checking"
        /\ calls' = [calls EXCEPT
              ![i].state = "replied",
              ![i].reply =
                  IF o.ok /\ Trim(o.stdout) = ""
                  THEN [success |-> FALSE,
                        error |-> "VM '" \o safeName
                                      \o "' not found. Check the name and try again."]
                  ELSE [success |-> FALSE, error |-> call.exit.message]]
        /\ UNCHANGED <<commandHistory, now, procs, rateLog, bridgeVars, sanitizeVars, taskVars>>

\* the text of a value inside a template literal
TemplateText(x) ==
    CASE x.t = "string"    -> x.s
      [] x.t = "null"      -> "null"
      [] x.t = "undefined" -> "undefined"
      [] OTHER             -> "[object]"

\* ipcMain.handle('remove-iso', ...) up to its await: no call of isRateLimited
RemoveIso(i) ==
    LET call == calls[i]
    IN  /\ call.channel = "remove-iso"
        /\ call.state = "arrived"
        /\ procs' = Append(procs,
              [line |-> "powershell -ExecutionPolicy Bypass -Command \""
                            \o "Remove-Item -Path \"" \o TemplateText(call.command)
                            \o "\" -Force" \o "\"",
               timeout |-> NoTimeout, call |-> i])
        /\ calls' = [calls EXCEPT ![i].state = "executing", ![i].proc = Len(procs) + 1]
        /\ UNCHANGED <<commandHistory, now, rateLog, bridgeVars, sanitizeVars, taskVars>>

\* remove-iso after execPromise settled
RemoveIsoSettle(i, o) ==
    /\ calls[i].channel = "remove-iso"
    /\ calls[i].state = "executing"
    /\ calls' = [calls EXCEPT
          ![i].state = "replied", ![i].exit = o,
          ![i].reply = IF o.ok
                       THEN [success |-> TRUE, message |-> "ISO removed from library"]
                       ELSE [success |-> FALSE, error |-> o.message]]
    /\ UNCHANGED <<commandHistory, now, procs, rateLog, bridgeVars, sanitizeVars, taskVars>>

-----------------------------------------------------------------------------
(* The other handlers that take the name of a virtual machine *)

\* a handler of a power operation up to its first await: isValidVMName,
\* sanitizeVMName, then execPromise of the command built around the name
PowerHandler(i, channel, before, after, timeout) ==
    LET call == calls[i]
        safeName == sanitizeVMName(call.command)
    IN  /\ call.channel = channel
        /\ call.state = "arrived"
        /\ IF ~isValidVMName(call.command)
           THEN /\ calls' = [calls EXCEPT ![i].state = "replied",
                                          ![i].reply = [success |-> FALSE,
                                                        error |-> "Invalid VM name"]]
                /\ UNCHANGED procs
           ELSE /\ procs' = Append(procs,
                      [line |-> PowershellLine(before \o safeName \o after),
                       timeout |-> timeout, call |-> i])
                /\ calls' = [calls EXCEPT ![i].state = "executing",
                                          ![i].proc = Len(procs) + 1]
        /\ UNCHANGED <<commandHistory, now, rateLog, bridgeVars, sanitizeVars, taskVars>>

\* ipcMain.handle('shutdown-vm', ...)
ShutdownVm(i) ==
    PowerHandler(i, "shutdown-vm", "Stop-VM -Name '", "' -Shutdown -ErrorAction Stop", 30000)

\* ipcMain.handle('stop-vm', ...)
StopVm(i) ==
    PowerHandler(i, "stop-vm", "Stop-VM -Name '", "' -Force -ErrorAction Stop", 30000)

\* ipcMain.handle('restart-vm', ...)
RestartVm(i) ==
    PowerHandler(i, "restart-vm", "Restart-VM -Name '", "' -Force -ErrorAction Stop", 60000)

\* ipcMain.handle('turnoff-vm', ...)
TurnoffVm(i) ==
    PowerHandler(i, "turnoff-vm", "Stop-VM -Name '", "' -TurnOff -Force -ErrorAction Stop",
                 30000)

\* shutdown-vm and turnoff-vm after execPromise settled
PowerSettle(i, o) ==
    /\ calls[i].channel \in {"shutdown-vm", "turnoff-vm"}
    /\ calls[i].state = "executing"
    /\ calls' = [calls EXCEPT
          ![i].state = "replied", ![i].exit = o,
          ![i].reply = IF o.ok THEN [success |-> TRUE]
                       ELSE [success |-> FALSE, error |-> o.message]]
    /\ UNCHANGED <<commandHistory, now, procs, rateLog, bridgeVars, sanitizeVars, taskVars>>

\* stop-vm and restart-vm after execPromise settled: the reply, or in the catch
\* branch the Get-VM check
CheckedSettle(i, o) ==
    LET call == calls[i]
        safeName == sanitizeVMName(call.command)
    IN  /\ call.channel \in {"stop-vm", "restart-vm"}
        /\ call.state = "executing"
        /\ IF o.ok
           THEN /\ calls' = [calls EXCEPT ![i].state = "replied", ![i].exit = o,
                                          ![i].reply = [success |-> TRUE]]
                /\ UNCHANGED procs
           ELSE /\ procs' = Append(procs,
                      [line |-> PowershellLine("Get-VM -Name '" \o safeName
                                                   \o "' -ErrorAction SilentlyContinue"),
                       timeout |-> StartVmCheckTimeout, call |-> i])
                /\ calls' = [calls EXCEPT ![i].state = "checking", ![i].exit = o,
                                          ![i].proc = Len(procs) + 1]
        /\ UNCHANGED <<commandHistory, now, rateLog, bridgeVars, sanitizeVars, taskVars>>

\* stop-vm and restart-vm after the Get-VM check settled
CheckedCheckSettle(i, o) ==
    LET call == calls[i]
        safeName == sanitizeVMName(call.command)
    IN  /\ call.channel \in {"stop-vm", "restart-vm"}
        /\ call.state = "checking"
        /\ calls' = [calls EXCEPT
              ![i].state = "replied",
              ![i].reply =
                  IF o.ok /\ Trim(o.stdout) = ""
                  THEN [success |-> FALSE, error |-> "VM '" \o safeName \o "' not found."]
                  ELSE [success |-> FALSE, error |-> call.exit.message]]
        /\ UNCHANGED <<commandHistory, now, procs, rateLog, bridgeVars, sanitizeVars, taskVars>>

\* require('os').hostname()
Hostname == "HV-HOST"

\* ipcMain.handle('launch-vmconnect', ...) up to the promise it returns: spawn of
\* vmconnect.exe without a shell
LaunchVmconnect(i) ==
    LET call == calls[i]
        safeName == sanitizeVMName(call.command)
    IN  /\ call.channel = "launch-vmconnect"
        /\ call.state = "arrived"
        /\ IF ~isValidVMName(call.command)
           THEN /\ calls' = [calls EXCEPT ![i].state = "replied",
                                          ![i].reply = [success |-> FALSE,
                                                        error |-> "Invalid VM name"]]
                /\ UNCHANGED procs
           ELSE /\ procs' = Append(procs,
                      [line |-> "vmconnect.exe", args |-> <<Hostname, safeName>>,
                       timeout |-> NoTimeout, call |-> i])
                /\ calls' = [calls EXCEPT ![i].state = "executing",
                                          ![i].proc = Len(procs) + 1]
        /\ UNCHANGED <<commandHistory, now, rateLog, bridgeVars, sanitizeVars, taskVars>>

\* the setTimeout of launch-vmconnect resolves the promise, half a second later
LaunchVmconnectResolve(i) ==
    /\ calls[i].channel = "launch-vmconnect"
    /\ calls[i].state = "executing"
    /\ calls' = [calls EXCEPT ![i].state = "replied",
                               ![i].reply = [success |-> TRUE, pid |-> calls[i].proc]]
    /\ UNCHANGED <<commandHistory, now, procs, rateLog, bridgeVars, sanitizeVars, taskVars>>

VmChannels ==
    {"start-vm", "shutdown-vm", "stop-vm", "restart-vm", "turnoff-vm", "launch-vmconnect"}

RECURSIVE Repeated(_, _)
Repeated(c, n) == IF n = 0 THEN "" ELSE c \o Repeated(c, n - 1)

\* the characters of /[;|&`$(){}\[\]<>]/ (EscapeChar stands for the backtick)
ShellMetaChars ==
    {";", "|", "&", EscapeChar, "$", "(", ")", "{", "}", "[", "]", "<", ">"}

VmNameInputs ==
    {Str(s) : s \in {"vm 1", "WebServer01", "", "  ", " \t", "a'b", "a\\b\"c", "../x",
                     "  two   words ", Repeated("a", 101)}}
    \cup {Str("vm" \o c \o "1") : c \in ShellMetaChars}
    \cup {Num(5), Num(0), Null, Undefined, Bool(TRUE), Arr(<<Str("vm 1")>>)}

VmNamesInit ==
    /\ calls \in {<<Arrived(ch, n)>> : ch \in VmChannels, n \in VmNameInputs}
    /\ commandHistory = <<>>
    /\ now = 0
    /\ procs = <<>>
    /\ rateLog = <<>>
    /\ InitBridge
    /\ InitSanitizeIdle
    /\ InitTasksIdle

NextVmNames ==
    \/ \E i \in 1..Len(calls) : StartVm(i)
    \/ \E i \in 1..Len(calls), o \in ExecOutcomes : StartVmSettle(i, o)
    \/ \E i \in 1..Len(calls), o \in ExecOutcomes : StartVmCheckSettle(i, o)
    \/ \E i \in 1..Len(calls) : ShutdownVm(i)
    \/ \E i \in 1..Len(calls) : StopVm(i)
    \/ \E i \in 1..Len(calls) : RestartVm(i)
    \/ \E i \in 1..Len(calls) : TurnoffVm(i)
    \/ \E i \in 1..Len(calls), o \in ExecOutcomes : PowerSettle(i, o)
    \/ \E i \in 1..Len(calls), o \in ExecOutcomes : CheckedSettle(i, o)
    \/ \E i \in 1..Len(calls), o \in ExecOutcomes : CheckedCheckSettle(i, o)
    \/ \E i \in 1..Len(calls) : LaunchVmconnect(i)
    \/ \E i \in 1..Len(calls) : LaunchVmconnectResolve(i)

SpecVmNames == VmNamesInit /\ [][NextVmNames]_vars

-----------------------------------------------------------------------------
(* The main process serving one request after another while time passes *)

MaxClock == 1002
MaxRateCalls == 12

\* how far Date.now() moves between two observations
TickSteps == {500, 501}

CommandChannels == {"run-hyperv-cmd", "execute-powershell"}

MainRequests ==
    {<<ch, c>> : ch \in CommandChannels, c \in {Str("Get-VM"), Str("iex (1)"), Str(""), Null}}
    \cup {<<"start-vm", n>> : n \in {Str("vm 1"), Str("a;b")}}
    \cup {<<"remove-iso", Str("C:\\iso\\a.iso")>>}

MainInit ==
    /\ InitMainIdle
    /\ InitBridge
    /\ InitSanitizeIdle
    /\ InitTasksIdle

\* The renderer of this specification awaits the reply of a request before it sends
\* the next one; calls and procs hold the request being served and its processes.
IpcArrive(ch, c) ==
    /\ \A i \in 1..Len(calls) : calls[i].state = "replied"
    /\ ch \in CommandChannels => Len(rateLog) < MaxRateCalls
    /\ calls' = <<Arrived(ch, c)>>
    /\ procs' = <<>>
    /\ UNCHANGED <<commandHistory, now, rateLog, bridgeVars, sanitizeVars, taskVars>>

Tick(d) ==
    /\ now + d <= MaxClock
    /\ now' = now + d
    /\ UNCHANGED <<commandHistory, calls, procs, rateLog, bridgeVars, sanitizeVars, taskVars>>

NextMain ==
    \/ \E r \in MainRequests : IpcArrive(r[1], r[2])
    \/ \E d \in TickSteps : Tick(d)
    \/ \E i \in 1..Len(calls) : RunHypervCmd(i)
    \/ \E i \in 1..Len(calls) : ExecutePowershell(i)
    \/ \E i \in 1..Len(calls), o \in ExecOutcomes : ExecSettle(i, o)
    \/ \E i \in 1..Len(calls) : StartVm(i)
    \/ \E i \in 1..Len(calls), o \in ExecOutcomes : StartVmSettle(i, o)
    \/ \E i \in 1..Len(calls), o \in ExecOutcomes : StartVmCheckSettle(i, o)
    \/ \E i \in 1..Len(calls) : RemoveIso(i)
    \/ \E i \in 1..Len(calls), o \in ExecOutcomes : RemoveIsoSettle(i, o)

SpecMain == MainInit /\ [][NextMain]_vars

-----------------------------------------------------------------------------
(* The main process with several requests of the command channels in flight *)

MaxInFlight == 2
PriorCalls == 9

ConcurrentRequests ==
    {<<ch, c>> : ch \in CommandChannels, c \in {Str("Get-VM"), Str("iex (1)")}}

\* PriorCalls requests were let through in the millisecond in which the behaviour starts
ConcurrentInit ==
    /\ calls = <<>>
    /\ commandHistory = [j \in 1..PriorCalls |-> 0]
    /\ now = 0
    /\ procs = <<>>
    /\ rateLog = [j \in 1..PriorCalls |-> [at |-> 0, limited |-> FALSE]]
    /\ InitBridge
    /\ InitSanitizeIdle
    /\ InitTasksIdle

\* the process of a request in flight ends well, or fails after writing something
ConcurrentOutcomes == {o \in ExecOutcomes : o.stdout # ""}

\* ipcRenderer.invoke of a caller that does not wait for the requests sent before
IpcArriveConcurrent(ch, c) ==
    /\ Len(calls) < MaxInFlight
    /\ calls' = Append(calls, Arrived(ch, c))
    /\ UNCHANGED <<commandHistory, now, procs, rateLog, bridgeVars, sanitizeVars, taskVars>>

NextConcurrent ==
    \/ \E r \in ConcurrentRequests : IpcArriveConcurrent(r[1], r[2])
    \/ \E d \in TickSteps : Tick(d)
    \/ \E i \in 1..Len(calls) : RunHypervCmd(i)
    \/ \E i \in 1..Len(calls) : ExecutePowershell(i)
    \/ \E i \in 1..Len(calls), o \in ConcurrentOutcomes : ExecSettle(i, o)

SpecConcurrent == ConcurrentInit /\ [][NextConcurrent]_vars

-----------------------------------------------------------------------------
(* The tasks panel of the renderer *)

RECURSIVE ParseDigits(_, _)
\* the value of a string of decimal digits
ParseDigits(s, acc) ==
    IF s = "" THEN acc
    ELSE ParseDigits(Tail(s),
             10 * acc + ((CHOOSE j \in 1..Len(Digits) : CharAt(Digits, j) = Head(s)) - 1))

\* the conversion to a number that Math.max and Math.min apply to an argument
ToNumber(x) ==
    CASE x.t = "number"    -> x
      [] x.t = "null"      -> Num(0)
      [] x.t = "boolean"   -> Num(IF x.b THEN 1 ELSE 0)
      [] x.t = "string"    -> IF \A j \in 1..Len(x.s) : CharAt(x.s, j) \in {CharAt(Digits, d) : d \in 1..Len(Digits)}
                              THEN Num(ParseDigits(x.s, 0))
                              ELSE NaN
      [] OTHER             -> NaN

\* Math.max(a, b) and Math.min(a, b): NaN as soon as one argument converts to NaN
MathMax(a, b) ==
    LET x == ToNumber(a)
        y == ToNumber(b)
    IN  IF IsNaN(x) \/ IsNaN(y) THEN NaN ELSE IF x.n >= y.n THEN x ELSE y

MathMin(a, b) ==
    LET x == ToNumber(a)
        y == ToNumber(b)
    IN  IF IsNaN(x) \/ IsNaN(y) THEN NaN ELSE IF x.n <= y.n THEN x ELSE y

\* new Date() at time t
DateAt(t) == [t |-> "date", ms |-> t]

REMOVAL_DELAY == 30000

\* tasksList.find(t => t.id === taskId) / findIndex: the position of the first task
\* with that id, 0 when there is none
FindTask(list, taskId) ==
    LET hits == {j \in 1..Len(list) : list[j].id = taskId}
    IN  IF hits = {} THEN 0 ELSE SetMin(hits)

\* a createTask that numbers the new task after the length of the list
createTaskByLength(name, target, type) ==
    LET taskId == Len(tasksList) + 1
    IN  [id |-> taskId, counter |-> taskId,
         list |-> <<[id |-> Num(taskId), name |-> name, target |-> target, type |-> type,
                     status |-> "running", progress |-> Num(0),
                     startTime |-> DateAt(now), endTime |-> Null]>> \o tasksList]

\* createTask(name, target, type): the id returned, the counter and the list left behind
createTask(name, target, type) ==
    LET taskId == taskIdCounter + 1
    IN  [id |-> taskId, counter |-> taskId,
         list |-> <<[id |-> Num(taskId), name |-> name, target |-> target, type |-> type,
                     status |-> "running", progress |-> Num(0),
                     startTime |-> DateAt(now), endTime |-> Null]>> \o tasksList]

\* updateTaskProgress(taskId, progress)
updateTaskProgress(list, taskId, progress) ==
    LET j == FindTask(list, taskId)
    IN  IF j # 0 /\ list[j].status = "running"
        THEN [list EXCEPT ![j].progress = MathMin(Num(100), MathMax(Num(0), progress))]
        ELSE list

\* the parameter success = true
SuccessFlag(success) == IF success.t = "undefined" THEN TRUE ELSE ~Falsy(success)

\* completeTask(taskId, success): the list left behind and whether setTimeout was called
completeTask(list, taskId, success, t) ==
    LET j == FindTask(list, taskId)
    IN  IF j # 0
        THEN [list |-> [list EXCEPT ![j].status = IF SuccessFlag(success) THEN "success"
                                                   ELSE "error",
                                    ![j].progress = Num(100),
                                    ![j].endTime = DateAt(t)],
              timer |-> SuccessFlag(success)]
        ELSE [list |-> list, timer |-> FALSE]

\* a cancelTask that does not look at the status
cancelTaskAnyStatus(list, taskId, t) ==
    LET j == FindTask(list, taskId)
    IN  IF j # 0
        THEN [list EXCEPT ![j].status = "cancelled", ![j].endTime = DateAt(t)]
        ELSE list

\* a cancelTask that also resets the progress
cancelTaskResetProgress(list, taskId, t) ==
    LET j == FindTask(list, taskId)
    IN  IF j # 0 /\ list[j].status = "running"
        THEN [list EXCEPT ![j].status = "cancelled", ![j].progress = Num(0),
                          ![j].endTime = DateAt(t)]
        ELSE list

\* cancelTask(taskId)
cancelTask(list, taskId, t) ==
    LET j == FindTask(list, taskId)
    IN  IF j # 0 /\ list[j].status = "running"
        THEN [list EXCEPT ![j].status = "cancelled", ![j].endTime = DateAt(t)]
        ELSE list

IsRunning(task) == task.status = "running"

IsRunningOrFailed(task) == task.status \in {"running", "error"}

\* a clearCompletedTasks that clears only what completed without an error
clearCompletedTasksKeepFailed(list) == SelectSeq(list, IsRunningOrFailed)

\* clearCompletedTasks()
clearCompletedTasks(list) == SelectSeq(list, IsRunning)

\* a callback that does not look at the status
RemovalCallbackAnyStatus(list, taskId) ==
    LET idx == FindTask(list, taskId)
    IN  IF idx # 0
        THEN SubSeq(list, 1, idx - 1) \o SubSeq(list, idx + 1, Len(list))
        ELSE list

\* the callback of the setTimeout of completeTask
RemovalCallback(list, taskId) ==
    LET idx == FindTask(list, taskId)
    IN  IF idx # 0 /\ list[idx].status = "success"
        THEN SubSeq(list, 1, idx - 1) \o SubSeq(list, idx + 1, Len(list))
        ELSE list

MaxTasks == 2
MaxTimers == 1
MaxTaskClock == 30000

TaskTickSteps == {30000}

TaskIdInputs == {Num(k) : k \in 1..MaxTasks} \cup {Str("1")}

ProgressInputs == {Num(-5), Num(50), Num(150), Undefined}

SuccessInputs == {Bool(TRUE), Bool(FALSE), Undefined}

TasksInit ==
    /\ InitTasksIdle
    /\ InitMainIdle
    /\ InitBridge
    /\ InitSanitizeIdle

CreateTask(name, target) ==
    LET r == createTask(name, target, "operation")
    IN  /\ taskIdCounter < MaxTasks
        /\ tasksList' = r.list
        /\ taskIdCounter' = r.counter
        /\ UNCHANGED <<timers, ops, mainVars, bridgeVars, sanitizeVars>>

UpdateTaskProgress(taskId, progress) ==
    /\ tasksList' = updateTaskProgress(tasksList, taskId, progress)
    /\ UNCHANGED <<taskIdCounter, timers, ops, mainVars, bridgeVars, sanitizeVars>>

CompleteTask(taskId, success) ==
    LET r == completeTask(tasksList, taskId, success, now)
    IN  /\ r.timer => Len(timers) < MaxTimers
        /\ tasksList' = r.list
        /\ timers' = IF r.timer
                     THEN Append(timers, [id |-> taskId, due |-> now + REMOVAL_DELAY,
                                          fired |-> FALSE])
                     ELSE timers
        /\ UNCHANGED <<taskIdCounter, ops, mainVars, bridgeVars, sanitizeVars>>

\* a cancel button that also gives up the request the task is waiting for
CancelTaskAborting(taskId) ==
    /\ tasksList' = cancelTask(tasksList, taskId, now)
    /\ calls' = [i \in 1..Len(calls) |->
                    IF /\ calls[i].state # "replied"
                       /\ \E k \in 1..Len(ops) : ops[k].call = i /\ ops[k].taskId = taskId
                    THEN [calls[i] EXCEPT !.state = "replied",
                                          !.reply = [success |-> FALSE, error |-> "Cancelled"]]
                    ELSE calls[i]]
    /\ UNCHANGED <<taskIdCounter, timers, ops, commandHistory, now, procs, rateLog,
                   bridgeVars, sanitizeVars>>

\* the click on the cancel button of a task: cancelTask(task.id)
CancelTask(taskId) ==
    /\ tasksList' = cancelTask(tasksList, taskId, now)
    /\ UNCHANGED <<taskIdCounter, timers, ops, mainVars, bridgeVars, sanitizeVars>>

ClearCompletedTasks ==
    /\ tasksList' = clearCompletedTasks(tasksList)
    /\ UNCHANGED <<taskIdCounter, timers, ops, mainVars, bridgeVars, sanitizeVars>>

\* a timer of completeTask runs its callback, REMOVAL_DELAY or more after it was set
TimerFires(k) ==
    /\ ~timers[k].fired
    /\ now >= timers[k].due
    /\ tasksList' = RemovalCallback(tasksList, timers[k].id)
    /\ timers' = [timers EXCEPT ![k].fired = TRUE]
    /\ UNCHANGED <<taskIdCounter, ops, mainVars, bridgeVars, sanitizeVars>>

\* time passes in the renderer; a timer that is due runs before time moves on
TaskTick(d) ==
    /\ now + d <= MaxTaskClock
    /\ \A k \in 1..Len(timers) : timers[k].fired \/ now < timers[k].due
    /\ now' = now + d
    /\ UNCHANGED <<commandHistory, calls, procs, rateLog, taskVars, bridgeVars, sanitizeVars>>

NextTasks ==
    \/ CreateTask("Start Virtual Machine", "WebServer01")
    \/ \E id \in TaskIdInputs, p \in ProgressInputs : UpdateTaskProgress(id, p)
    \/ \E id \in TaskIdInputs, ok \in SuccessInputs : CompleteTask(id, ok)
    \/ \E id \in TaskIdInputs : CancelTask(id)
    \/ ClearCompletedTasks
    \/ \E k \in 1..Len(timers) : TimerFires(k)
    \/ \E d \in TaskTickSteps : TaskTick(d)

SpecTasks == TasksInit /\ [][NextTasks]_vars

-----------------------------------------------------------------------------
(* The UI operations that track a request to the main process in the tasks panel *)

MaxOps == 1

\* the timers after a call of completeTask that returned r
TimersAfter(r, taskId) ==
    IF r.timer
    THEN Append(timers, [id |-> taskId, due |-> now + REMOVAL_DELAY, fired |-> FALSE])
    ELSE timers

\* startVM() / stopVM() up to the await: createTask, two progress updates and
\* ipcRenderer.invoke, the wrapper around window.api.invoke; when the wrapper finds
\* no bridge or the bridge refuses the channel, the catch branch
VmOperationBegin(kind, channel, title, vm, bridge) ==
    LET created == createTask(title, vm.s, "operation")
        taskId == Num(created.id)
        updated == updateTaskProgress(updateTaskProgress(created.list, taskId, Num(20)),
                                      taskId, Num(50))
        request == apiInvoke(Str(channel), <<vm>>)
        failed == completeTask(updated, taskId, Bool(FALSE), now)
    IN  /\ Len(ops) < MaxOps
        /\ taskIdCounter' = created.counter
        /\ IF bridge /\ request.ipc # <<>>
           THEN /\ tasksList' = updated
                /\ calls' = Append(calls, Arrived(channel, request.ipc[1].args[1]))
                /\ ops' = Append(ops, [kind |-> kind, taskId |-> taskId,
                                       call |-> Len(calls) + 1, pc |-> "awaiting"])
                /\ timers' = timers
           ELSE /\ tasksList' = failed.list
                /\ calls' = calls
                /\ ops' = Append(ops, [kind |-> kind, taskId |-> taskId, call |-> 0,
                                       pc |-> "done"])
                /\ timers' = TimersAfter(failed, taskId)
        /\ UNCHANGED <<commandHistory, now, procs, rateLog, bridgeVars, sanitizeVars>>

\* startVM()
StartVM(vm, bridge) ==
    VmOperationBegin("startVM", "start-vm", "Start Virtual Machine", vm, bridge)

\* stopVM()
StopVM(vm, bridge) ==
    VmOperationBegin("stopVM", "stop-vm", "Stop Virtual Machine", vm, bridge)

\* startVM() / stopVM() after the await: the result of the request has arrived
VmOperationResume(k) ==
    LET op == ops[k]
        result == calls[op.call].reply
        at90 == updateTaskProgress(tasksList, op.taskId, Num(90))
        completed ==
            IF result.success
            THEN completeTask(updateTaskProgress(at90, op.taskId, Num(100)), op.taskId,
                              Bool(TRUE), now)
            ELSE completeTask(at90, op.taskId, Bool(FALSE), now)
    IN  /\ op.kind \in {"startVM", "stopVM"}
        /\ op.pc = "awaiting"
        /\ calls[op.call].state = "replied"
        /\ tasksList' = completed.list
        /\ timers' = TimersAfter(completed, op.taskId)
        /\ ops' = [ops EXCEPT ![k].pc = "done"]
        /\ UNCHANGED <<taskIdCounter, mainVars, bridgeVars, sanitizeVars>>

\* executeAIAction(intent, ...) with command 'start_vm', up to the await
ExecuteAIAction(target, bridge) ==
    LET request == apiInvoke(Str("start-vm"), <<target>>)
    IN  /\ Len(ops) < MaxOps
        /\ IF bridge /\ request.ipc # <<>>
           THEN /\ calls' = Append(calls, Arrived("start-vm", request.ipc[1].args[1]))
                /\ ops' = Append(ops, [kind |-> "executeAIAction", taskId |-> Null,
                                       call |-> Len(calls) + 1, pc |-> "awaiting"])
           ELSE /\ calls' = calls
                /\ ops' = Append(ops, [kind |-> "executeAIAction", taskId |-> Null,
                                       call |-> 0, pc |-> "done"])
        /\ UNCHANGED <<tasksList, taskIdCounter, timers, commandHistory, now, procs, rateLog,
                       bridgeVars, sanitizeVars>>

\* executeAIAction, case 'start_vm', after the await: createTask on success; after
\* an error that says 'not found' the request for the list of VMs
ExecuteAIActionResume(k) ==
    LET op == ops[k]
        startResult == calls[op.call].reply
        created == createTask("Start VM", calls[op.call].command.s, "operation")
    IN  /\ op.kind = "executeAIAction"
        /\ op.pc = "awaiting"
        /\ calls[op.call].state = "replied"
        /\ IF startResult.success
           THEN /\ tasksList' = created.list
                /\ taskIdCounter' = created.counter
                /\ ops' = [ops EXCEPT ![k].pc = "done", ![k].taskId = Num(created.id)]
                /\ calls' = calls
           ELSE IF RegexTest(Regex(<< Lit("not found") >>, ""), startResult.error)
           THEN /\ calls' = Append(calls, Arrived("get-vms", Undefined))
                /\ ops' = [ops EXCEPT ![k].pc = "listing", ![k].call = Len(calls) + 1]
                /\ UNCHANGED <<tasksList, taskIdCounter>>
           ELSE /\ ops' = [ops EXCEPT ![k].pc = "done"]
                /\ UNCHANGED <<tasksList, taskIdCounter, calls>>
        /\ UNCHANGED <<timers, commandHistory, now, procs, rateLog, bridgeVars, sanitizeVars>>

\* selectedVM, or the target of an intent
UiVmNames == {Str("WebServer01")}

\* how a process of start-vm or stop-vm ends: well, with or without output, or
\* with an error
UiOutcomes == {o \in ExecOutcomes : o.ok \/ (o.message = "Command failed" /\ o.stdout = "")}

UiInit ==
    /\ InitTasksIdle
    /\ InitMainIdle
    /\ InitBridge
    /\ InitSanitizeIdle

NextUi ==
    \/ \E vm \in UiVmNames, bridge \in BOOLEAN : StartVM(vm, bridge)
    \/ \E vm \in UiVmNames, bridge \in BOOLEAN : StopVM(vm, bridge)
    \/ \E k \in 1..Len(ops) : VmOperationResume(k)
    \/ \E target \in UiVmNames, bridge \in BOOLEAN : ExecuteAIAction(target, bridge)
    \/ \E k \in 1..Len(ops) : ExecuteAIActionResume(k)
    \/ \E id \in TaskIdInputs : CancelTask(id)
    \/ ClearCompletedTasks
    \/ \E j \in 1..Len(timers) : TimerFires(j)
    \/ \E d \in TaskTickSteps : TaskTick(d)
    \/ \E i \in 1..Len(calls) : StartVm(i)
    \/ \E i \in 1..Len(calls), o \in UiOutcomes : StartVmSettle(i, o)
    \/ \E i \in 1..Len(calls), o \in UiOutcomes : StartVmCheckSettle(i, o)
    \/ \E i \in 1..Len(calls) : StopVm(i)
    \/ \E i \in 1..Len(calls), o \in UiOutcomes : CheckedSettle(i, o)
    \/ \E i \in 1..Len(calls), o \in UiOutcomes : CheckedCheckSettle(i, o)

SpecUi == UiInit /\ [][NextUi]_vars

-----------------------------------------------------------------------------
(* Properties *)

\* exact, case-sensitive membership of a channel value in a whitelist
InList(list, ch) == ch.t = "string" /\ \E j \in 1..Len(list) : list[j] = ch.s

OwnList(api) ==
    CASE api = "invoke" -> ALLOWED_INVOKE_CHANNELS
      [] api = "send"   -> ALLOWED_SEND_CHANNELS
      [] OTHER          -> ALLOWED_RECEIVE_CHANNELS

ListSet(list) == {list[j] : j \in 1..Len(list)}

\* C1: fail-closed whitelist.  A request makes a call on the real ipcRenderer only
\* when its channel is a string that is an exact member of the list of the entry
\* point it came through, the call is of that entry point's kind and carries that
\* channel, and the three lists are disjoint.
C1_FailClosed ==
    /\ \A i \in 1..Len(requests) :
          LET r == requests[i]
          IN  /\ r.ipc # <<>> => InList(OwnList(r.api), r.channel)
              /\ r.registered => InList(ALLOWED_RECEIVE_CHANNELS, r.channel)
              /\ \A j \in 1..Len(r.ipc) :
                    r.ipc[j].method = r.api /\ r.ipc[j].channel = r.channel
    /\ ListSet(ALLOWED_INVOKE_CHANNELS) \cap ListSet(ALLOWED_SEND_CHANNELS) = {}
    /\ ListSet(ALLOWED_INVOKE_CHANNELS) \cap ListSet(ALLOWED_RECEIVE_CHANNELS) = {}
    /\ ListSet(ALLOWED_SEND_CHANNELS) \cap ListSet(ALLOWED_RECEIVE_CHANNELS) = {}

\* a send name and a wrongly cased invoke name were refused by invoke or send
\* without a call, next to a request that was let through
C1_Witness ==
    /\ \E i \in 1..Len(requests) :
          /\ requests[i].channel \in {Str("app-ready"), Str("GET-VMS"), Num(1)}
          /\ requests[i].api = "invoke"
          /\ requests[i].ipc = <<>>
    /\ \E i \in 1..Len(requests) : requests[i].ipc # <<>>

\* C2: an authorization failure per direction.  invoke on a channel outside its
\* list is rejected with the not-allowed error and never resolves; send on a
\* channel outside its list returns normally; on for a channel outside its list
\* returns the no-op unsubscribe function and registers nothing.
C2_AuthFailurePerDirection ==
    \A i \in 1..Len(requests) :
        LET r == requests[i]
        IN  /\ (r.api = "invoke" /\ ~InList(ALLOWED_INVOKE_CHANNELS, r.channel)) =>
                  /\ r.phase = "Rejected"
                  /\ r.error = NotAllowed(r.channel)
                  /\ r.ipc = <<>>
            /\ (r.api = "send" /\ ~InList(ALLOWED_SEND_CHANNELS, r.channel)) =>
                  /\ r.phase = "Returned"
                  /\ r.error = NoError
                  /\ r.ipc = <<>>
            /\ (r.api = "on" /\ ~InList(ALLOWED_RECEIVE_CHANNELS, r.channel)) =>
                  /\ r.phase = "Returned"
                  /\ r.unsub = "noop"
                  /\ ~r.registered
                  /\ r.ipc = <<>>

C2_Witness ==
    /\ \E i \in 1..Len(requests) :
          /\ requests[i].api = "invoke"
          /\ requests[i].channel = Str("drop-database")
          /\ requests[i].phase = "Rejected"
    /\ \E i \in 1..Len(requests) :
          /\ requests[i].api \in {"send", "on"}
          /\ requests[i].channel = Str("drop-database")
          /\ requests[i].phase = "Returned"

\* C3: per-request ordering.  A request of invoke or send that made a call on the
\* real ipcRenderer made exactly one, after Validating and then Sanitizing, on its
\* own whitelisted channel, with as many arguments as it was given, the j-th being
\* sanitizeInput of the j-th; and a request is Executing (or settled) only after
\* such a call.
C3_CheckedThenSanitized ==
    \A i \in 1..Len(requests) :
        LET r == requests[i]
        IN  /\ (r.api \in {"invoke", "send"} /\ r.ipc # <<>>) =>
                  /\ Len(r.ipc) = 1
                  /\ InList(OwnList(r.api), r.channel)
                  /\ r.ipc[1].channel = r.channel
                  /\ Len(r.ipc[1].args) = Len(r.args)
                  /\ \A j \in 1..Len(r.args) : r.ipc[1].args[j] = sanitizeInput(r.args[j])
                  /\ SubSeq(r.trace, 1, 3) = <<"Idle", "Validating", "Sanitizing">>
            /\ r.phase \in {"Executing", "Resolved", "Failed"} =>
                  /\ r.api = "invoke"
                  /\ r.ipc # <<>>
                  /\ SubSeq(r.trace, 1, 4) = <<"Idle", "Validating", "Sanitizing", "Executing">>

\* a forwarded invoke whose two arguments were given dirty and arrived changed
C3_Witness ==
    \E i \in 1..Len(requests) :
        /\ requests[i].api = "invoke"
        /\ requests[i].phase = "Executing"
        /\ Len(requests[i].args) = 2
        /\ requests[i].ipc[1].args # requests[i].args

UnlistedHandlers ==
    {"create-storage-pool", "export-checkpoint", "add-iso-to-library", "send-ai-message"}

\* C4: a handler registered in the main process runs only for a channel of the
\* invoke whitelist; the registered handlers outside it are the four named, and
\* none of them ever runs.
C4_UnlistedHandlersUnreachable ==
    /\ handlerRuns \cap UnlistedHandlers = {}
    /\ handlerRuns \subseteq RegisteredHandlers
    /\ RegisteredHandlers \ ListSet(ALLOWED_INVOKE_CHANNELS) = UnlistedHandlers
    /\ \A i \in 1..Len(requests) :
          requests[i].phase \in {"Executing", "Resolved"} =>
              requests[i].channel \notin {Str(h) : h \in UnlistedHandlers}

C4_Witness ==
    /\ "run-hyperv-cmd" \in handlerRuns
    /\ \E i \in 1..Len(requests) :
          /\ requests[i].api = "invoke"
          /\ requests[i].channel = Str("send-ai-message")
          /\ requests[i].phase = "Rejected"

RECURSIVE StringsIn(_)
\* every string of a value, at any depth
StringsIn(x) ==
    CASE x.t = "string" -> {x.s}
      [] x.t = "array"  -> UNION {StringsIn(x.a[j]) : j \in 1..Len(x.a)}
      [] x.t = "object" -> UNION {StringsIn(x.v[j]) : j \in 1..Len(x.v)}
      [] OTHER          -> {}

RECURSIVE SameShape(_, _)
\* arrays keep length and order of kinds, objects keep their keys, primitives are unchanged
SameShape(x, y) ==
    CASE x.t = "string" -> y.t = "string"
      [] x.t = "array"  -> /\ y.t = "array"
                           /\ Len(y.a) = Len(x.a)
                           /\ \A j \in 1..Len(x.a) : SameShape(x.a[j], y.a[j])
      [] x.t = "object" -> /\ y.t = "object"
                           /\ y.k = x.k
                           /\ Len(y.v) = Len(x.v)
                           /\ \A j \in 1..Len(x.v) : SameShape(x.v[j], y.v[j])
      [] OTHER          -> y = x

Contains(s, lit) == \E i \in 1..Len(s) : StartsWithAt(s, i, lit)

\* C5: sanitizeInput is idempotent: the value returned for its own output is that
\* output.
C5_Idempotent == twice # NotYet => twice = output

\* C6: the output of sanitizeInput has the shape of its input, and no string in it
\* holds a complete script-tag block, an occurrence of javascript: or an
\* on<word>= pattern.
C6_NoBlockedPatternLeft ==
    output # NotYet =>
        /\ SameShape(input, output)
        /\ \A s \in StringsIn(output) :
              /\ ~RegexTest(ScriptBlockRe, s)
              /\ ~Contains(s, "javascript:")
              /\ ~RegexTest(EventHandlerRe, s)

Handled(call) == call.state # "arrived" /\ ~call.limited

IsString(x) == x.t = "string"

\* some entry of BLOCKED_PATTERNS matches the string
MatchesDenyList(s) == \E j \in 1..Len(BLOCKED_PATTERNS) : RegexTest(BLOCKED_PATTERNS[j], s)

FirstDenyMatch(s) == SetMin({j \in 1..Len(BLOCKED_PATTERNS) : RegexTest(BLOCKED_PATTERNS[j], s)})

ProcessStartedFor(i) == \E k \in 1..Len(procs) : procs[k].call = i

\* C7: deny-list precedence.  For a command that matches an entry of
\* BLOCKED_PATTERNS the verdict of isCommandSafe is unsafe, whatever cmdlets of
\* ALLOWED_CMDLETS it holds besides, the handler answers success=false and no process
\* is started for it.
C7_DenyListPrecedence ==
    \A i \in 1..Len(calls) :
        (IsString(calls[i].command) /\ MatchesDenyList(calls[i].command.s)) =>
            /\ ~ProcessStartedFor(i)
            /\ calls[i].proc = 0
            /\ Handled(calls[i]) =>
                  /\ calls[i].verdict.safe = FALSE
                  /\ calls[i].state = "replied"
                  /\ calls[i].reply.success = FALSE

\* an allow-listed cmdlet followed by the recursive delete was refused
C7_Witness ==
    \E i \in 1..Len(calls) :
        /\ calls[i].command = Str("Get-VM | Remove-Item 'C:\\' -Recurse -Force")
        /\ Handled(calls[i])
        /\ calls[i].verdict.safe = FALSE

ZeroTokens(s) == Len(FoundCmdlets(s)) = 0

\* C9: a non-empty command that matches no deny pattern and holds no Verb-Noun token
\* is safe only if it starts with a variable assignment or holds an output-formatting
\* expression.
C9_ZeroTokenNarrowAllowance ==
    \A i \in 1..Len(calls) :
        LET c == calls[i].command
        IN  (Handled(calls[i]) /\ IsString(c) /\ c.s # "" /\ ~MatchesDenyList(c.s)
                /\ ZeroTokens(c.s)) =>
                (calls[i].verdict.safe =>
                     (RegexTest(AssignmentRe, c.s) \/ RegexTest(FormattingRe, c.s)))

\* C10: a non-empty command that matches no deny pattern and holds at least one
\* Verb-Noun token is safe and is executed, whether or not its tokens are in
\* ALLOWED_CMDLETS; the unrecognized ones are only written to the log.
C10_UnknownCmdletsOnlyLogged ==
    \A i \in 1..Len(calls) :
        LET c == calls[i].command
        IN  (Handled(calls[i]) /\ IsString(c) /\ c.s # "" /\ ~MatchesDenyList(c.s)
                /\ ~ZeroTokens(c.s)) =>
                /\ calls[i].verdict = [safe |-> TRUE]
                /\ calls[i].state = "executing"
                /\ calls[i].warned =
                      {t \in ListSet(FoundCmdlets(c.s)) :
                          t \notin ListSet(ALLOWED_CMDLETS) /\ ~RegexTest(ReadVerbRe, t)}

\* a command whose tokens are outside ALLOWED_CMDLETS was logged and let through
C10_Witness ==
    \E i \in 1..Len(calls) :
        /\ calls[i].command = Str("Foo-Bar ")
        /\ calls[i].state = "executing"
        /\ calls[i].warned = {"Foo-Bar"}
        /\ ProcessStartedFor(i)

\* the entries of the history that a call of isRateLimited at time t finds inside the window
InWindow(history, t) == {j \in 1..Len(history) : history[j] >= t - RATE_LIMIT_WINDOW}

\* C11: rate limiter boundary.  Counted from the empty history, each of the first
\* RATE_LIMIT_MAX calls of isRateLimited made within RATE_LIMIT_WINDOW of the first
\* returns false and the next call inside that window returns true; a call made
\* more than RATE_LIMIT_WINDOW after the earliest timestamp still kept returns false.
C11_RateLimiterBoundary ==
    /\ [](/\ \A k \in 1..Len(rateLog) :
                (k <= RATE_LIMIT_MAX /\ rateLog[k].at - rateLog[1].at <= RATE_LIMIT_WINDOW)
                    => ~rateLog[k].limited
          /\ (/\ Len(rateLog) > RATE_LIMIT_MAX
              /\ rateLog[RATE_LIMIT_MAX + 1].at - rateLog[1].at <= RATE_LIMIT_WINDOW)
                    => rateLog[RATE_LIMIT_MAX + 1].limited)
    /\ [][(/\ Len(rateLog') = Len(rateLog) + 1
           /\ commandHistory # <<>>
           /\ now > commandHistory[1] + RATE_LIMIT_WINDOW)
              => ~rateLog'[Len(rateLog')].limited]_vars

\* ten calls let through, the eleventh refused inside the window, the twelfth let
\* through once the window had passed
C11_Witness ==
    /\ Len(rateLog) = RATE_LIMIT_MAX + 2
    /\ rateLog[RATE_LIMIT_MAX].at - rateLog[1].at <= RATE_LIMIT_WINDOW
    /\ ~rateLog[RATE_LIMIT_MAX].limited
    /\ rateLog[RATE_LIMIT_MAX + 1].limited
    /\ rateLog[RATE_LIMIT_MAX + 2].at > rateLog[1].at + RATE_LIMIT_WINDOW
    /\ ~rateLog[RATE_LIMIT_MAX + 2].limited

IsCommandCall(call) == call.channel \in CommandChannels

\* C12: the rate limit comes before the safety filter.  A request of run-hyperv-cmd
\* or execute-powershell handled while RATE_LIMIT_MAX timestamps are inside the
\* window is refused; a refused request has no verdict of isCommandSafe, no warning
\* and no process, and its reply is the rate-limit reply of its channel whatever the
\* command was.
C12_RateLimitBeforeFilter ==
    /\ [](\A i \in 1..Len(calls) :
             (IsCommandCall(calls[i]) /\ calls[i].state # "arrived") =>
                 /\ calls[i].rateChecked
                 /\ rateLog # <<>>
                 /\ calls[i].limited =>
                       /\ calls[i].state = "replied"
                       /\ calls[i].verdict = NotYet
                       /\ calls[i].warned = {}
                       /\ calls[i].proc = 0
                       /\ ~ProcessStartedFor(i)
                       /\ calls[i].reply =
                             IF calls[i].channel = "run-hyperv-cmd"
                             THEN [success |-> FALSE,
                                   error |-> "Rate limit exceeded. Please slow down."]
                             ELSE [success |-> FALSE, output |-> "",
                                   error |-> "Rate limit exceeded. Please slow down."])
    /\ [][\A i \in 1..Len(calls) :
             (/\ Len(calls') = Len(calls)
              /\ IsCommandCall(calls[i])
              /\ calls[i].state = "arrived"
              /\ calls'[i].state # "arrived"
              /\ Cardinality(InWindow(commandHistory, now)) >= RATE_LIMIT_MAX)
                 => (calls'[i].limited /\ procs' = procs)]_vars

\* a command of the deny list refused by the rate limit, without a verdict
C12_Witness ==
    \E i \in 1..Len(calls) :
        /\ calls[i].command = Str("iex (1)")
        /\ calls[i].limited
        /\ calls[i].verdict = NotYet

\* C13 as stated: every process an invoke handler starts belongs to a request in
\* which the shared rate-limit window was checked, and checked with the answer
\* that the request may run.
C13_EveryExecutionRateChecked ==
    \A k \in 1..Len(procs) :
        /\ calls[procs[k].call].rateChecked
        /\ ~calls[procs[k].call].limited

Settled(call) == call.state = "replied" /\ call.exit # NotYet

Refused(call) ==
    /\ call.state = "replied"
    /\ call.limited \/ (call.verdict # NotYet /\ ~call.verdict.safe)

\* C15 as stated: every request of run-hyperv-cmd or execute-powershell refused by
\* the safety layer, by the deny list or by the rate limit, gets the same generic
\* error text.
C15_RefusalsIndistinguishable ==
    \A i \in 1..Len(calls) :
        (IsCommandCall(calls[i]) /\ Refused(calls[i])) =>
            calls[i].reply.error = "Command blocked for security reasons"

TaskIdsOf(list) == {list[j].id : j \in 1..Len(list)}

\* C16: createTask puts exactly one task, running with progress 0, at the front of
\* tasksList and returns an id one above the counter, which never goes down: the id
\* is greater than every id returned before.  In every state the ids of the list
\* are pairwise different, none is above the counter, and the list is ordered most
\* recent first.
C16_FreshIncreasingIds ==
    /\ [](/\ \A j, k \in 1..Len(tasksList) : j < k => tasksList[j].id.n > tasksList[k].id.n
          /\ \A j \in 1..Len(tasksList) : tasksList[j].id.n \in 1..taskIdCounter)
    /\ [][/\ taskIdCounter' >= taskIdCounter
          /\ (Len(tasksList') > Len(tasksList) \/ taskIdCounter' # taskIdCounter) =>
                /\ taskIdCounter' = taskIdCounter + 1
                /\ Tail(tasksList') = tasksList
                /\ Head(tasksList').id = Num(taskIdCounter')
                /\ Head(tasksList').status = "running"
                /\ Head(tasksList').progress = Num(0)
                /\ Head(tasksList').id \notin TaskIdsOf(tasksList)]_vars

\* the first task was removed by its timer and the second got a new id all the same
C16_Witness ==
    /\ taskIdCounter = 2
    /\ Len(tasksList) = 1
    /\ tasksList[1].id = Num(2)
    /\ tasksList[1].status = "running"
    /\ \E k \in 1..Len(timers) : timers[k].fired /\ timers[k].id = Num(1)

\* C17 as stated: in every state the progress of every task is an integer from 0
\* to 100, whatever was handed to updateTaskProgress.
C17_ProgressInRange ==
    \A j \in 1..Len(tasksList) :
        /\ ~IsNaN(tasksList[j].progress)
        /\ tasksList[j].progress.n \in 0..100

NotRunningOrUnknown(list, taskId) ==
    LET j == FindTask(list, taskId)
    IN  j = 0 \/ list[j].status \in {"success", "error", "cancelled"}

\* C18: updateTaskProgress and cancelTask for a task that is success, error or
\* cancelled, or for an id that is not in the list, return the list as it was; and
\* a step that changes a task that was not running is never one of theirs: it
\* completes the task, or removes it.
C18_NoOpAfterTerminal ==
    /\ [](\A id \in TaskIdInputs :
             NotRunningOrUnknown(tasksList, id) =>
                 /\ cancelTask(tasksList, id, now) = tasksList
                 /\ \A p \in ProgressInputs :
                       updateTaskProgress(tasksList, id, p) = tasksList)
    /\ [][\A j \in 1..Len(tasksList) :
             (/\ tasksList[j].status # "running"
              /\ Len(tasksList') = Len(tasksList)
              /\ tasksList'[j] # tasksList[j])
                 => /\ tasksList'[j].status \in {"success", "error"}
                    /\ tasksList'[j].progress = Num(100)]_vars

\* a cancelled task and a failed one, both still as their last operation left them
C18_Witness ==
    /\ \E j \in 1..Len(tasksList) :
          tasksList[j].status = "cancelled" /\ tasksList[j].progress = Num(50)
    /\ \E j \in 1..Len(tasksList) : tasksList[j].status = "error"

\* C19: cancelTask for a running task gives the list in which that task is
\* cancelled with endTime set and everything else is as before; and every step
\* in which a task goes from running to cancelled changes nothing but the status
\* and the endTime of that task.
C19_CancelFrame ==
    /\ [](\A id \in TaskIdInputs :
             LET j == FindTask(tasksList, id)
             IN  (j # 0 /\ tasksList[j].status = "running") =>
                     cancelTask(tasksList, id, now) =
                         [tasksList EXCEPT ![j].status = "cancelled",
                                           ![j].endTime = DateAt(now)])
    /\ [][\A j \in 1..Len(tasksList) :
             (/\ Len(tasksList') = Len(tasksList)
              /\ tasksList[j].status = "running"
              /\ tasksList'[j].status = "cancelled")
                 => /\ tasksList'[j].endTime = DateAt(now)
                    /\ tasksList'[j].progress = tasksList[j].progress
                    /\ tasksList'[j].id = tasksList[j].id
                    /\ tasksList'[j].name = tasksList[j].name
                    /\ tasksList'[j].target = tasksList[j].target
                    /\ tasksList'[j].startTime = tasksList[j].startTime
                    /\ \A k \in 1..Len(tasksList) : k # j => tasksList'[k] = tasksList[k]
                    /\ timers' = timers
                    /\ taskIdCounter' = taskIdCounter]_vars

\* a task cancelled at progress 50 next to a task that is still running
C19_Witness ==
    /\ \E j \in 1..Len(tasksList) :
          /\ tasksList[j].status = "cancelled"
          /\ tasksList[j].progress = Num(50)
          /\ tasksList[j].endTime # Null
    /\ \E j \in 1..Len(tasksList) : tasksList[j].status = "running"

\* a step of clearCompletedTasks that removed something
ClearedManually == tasksList' = clearCompletedTasks(tasksList) /\ tasksList' # tasksList

\* C20 as stated: a task that is success or error has progress 100 and an endTime;
\* a task completed with success stays in the list (unless it is cleared by hand)
\* while the 30 seconds of its timer have not elapsed; and once a timer of
\* completeTask has fired its task is absent from the list.
C20_RemovedAfterThirtySeconds ==
    /\ [](/\ \A j \in 1..Len(tasksList) :
                tasksList[j].status \in {"success", "error"} =>
                    (tasksList[j].progress = Num(100) /\ tasksList[j].endTime # Null)
          /\ \A k \in 1..Len(timers) :
                timers[k].fired => FindTask(tasksList, timers[k].id) = 0)
    /\ [][\A k \in 1..Len(timers) :
             (/\ ~timers[k].fired
              /\ now < timers[k].due
              /\ FindTask(tasksList, timers[k].id) # 0
              /\ ~ClearedManually)
                 => FindTask(tasksList', timers[k].id) # 0]_vars

\* the positions of the running tasks of a list, and the k-th of them
RunningPositions(list) == {j \in 1..Len(list) : list[j].status = "running"}

KthRunning(list, k) ==
    CHOOSE j \in RunningPositions(list) :
        Cardinality({h \in RunningPositions(list) : h <= j}) = k

\* a list is another one without its tasks that are not running
OnlyRunningOf(short, list) ==
    /\ Len(short) = Cardinality(RunningPositions(list))
    /\ \A k \in 1..Len(short) : short[k] = list[KthRunning(list, k)]

\* C22: clearCompletedTasks leaves exactly the running tasks, unchanged and in the
\* order they had; and a step that shortens the list without a timer firing leaves
\* exactly that, whether or not the 30 seconds of a timer have passed.
C22_ClearKeepsRunning ==
    /\ [](OnlyRunningOf(clearCompletedTasks(tasksList), tasksList))
    /\ [][(Len(tasksList') < Len(tasksList) /\ timers' = timers)
              => OnlyRunningOf(tasksList', tasksList)]_vars

\* a successful task was cleared before its timer was due, and the running task
\* stayed with the progress it had
C22_Witness ==
    /\ Len(tasksList) = 1
    /\ tasksList[1].status = "running"
    /\ tasksList[1].progress = Num(50)
    /\ taskIdCounter = 2
    /\ \E k \in 1..Len(timers) :
          /\ ~timers[k].fired
          /\ now < timers[k].due
          /\ FindTask(tasksList, timers[k].id) = 0

\* a stored progress that is a number not below another one
ProgressAtLeast(p, q) == ~IsNaN(p) /\ ~IsNaN(q) /\ p.n >= q.n

\* C23 as stated: a task that is running before and after a step has a progress
\* not below the one it had.
C23_ProgressNeverDecreases ==
    [][\A j \in 1..Len(tasksList), k \in 1..Len(tasksList') :
          (/\ tasksList'[k].id = tasksList[j].id
           /\ tasksList[j].status = "running"
           /\ tasksList'[k].status = "running")
              => ProgressAtLeast(tasksList'[k].progress, tasksList[j].progress)]_vars

\* the list without the task at position j
WithoutPosition(list, j) == SubSeq(list, 1, j - 1) \o SubSeq(list, j + 1, Len(list))

\* C28: a timer of completeTask that fires removes the task with its id if that task
\* is in the list with status success at that moment, and otherwise changes
\* nothing; every other task stays as it was; and a step that takes a failed or
\* cancelled task out of the list is never the step of a timer.
C28_TimerRemovesOnlySuccess ==
    /\ [][\A k \in 1..Len(timers) :
             (Len(timers') = Len(timers) /\ ~timers[k].fired /\ timers'[k].fired) =>
                 LET j == FindTask(tasksList, timers[k].id)
                 IN  IF j # 0 /\ tasksList[j].status = "success"
                     THEN tasksList' = WithoutPosition(tasksList, j)
                     ELSE tasksList' = tasksList]_vars
    /\ [][\A j \in 1..Len(tasksList) :
             (/\ tasksList[j].status \in {"error", "cancelled"}
              /\ FindTask(tasksList', tasksList[j].id) = 0)
                 => timers' = timers]_vars

\* a timer fired after its task had been completed again without success, and
\* the task is still there
C28_Witness ==
    \E k \in 1..Len(timers) :
        /\ timers[k].fired
        /\ FindTask(tasksList, timers[k].id) # 0
        /\ tasksList[FindTask(tasksList, timers[k].id)].status = "error"

\* a sequence is what is left of another one after dropping entries from its front
IsSuffixOf(short, long) ==
    \E n \in 0..Len(long) : short = SubSeq(long, n + 1, Len(long))

\* C24: commandHistory never holds more than RATE_LIMIT_MAX timestamps and they are
\* in non-decreasing order; after a call of isRateLimited at time now none of them is
\* older than now - RATE_LIMIT_WINDOW; a call that returns true leaves what it kept
\* of the history and records nothing, a call that returns false appends now.
C24_HistoryBounded ==
    /\ [](/\ Len(commandHistory) <= RATE_LIMIT_MAX
          /\ \A j, k \in 1..Len(commandHistory) :
                j < k => commandHistory[j] <= commandHistory[k])
    /\ [][Len(rateLog') = Len(rateLog) + 1 =>
             /\ \A j \in 1..Len(commandHistory') :
                   commandHistory'[j] >= now - RATE_LIMIT_WINDOW
             /\ IF rateLog'[Len(rateLog')].limited
                THEN IsSuffixOf(commandHistory', commandHistory)
                ELSE /\ commandHistory' # <<>>
                     /\ commandHistory'[Len(commandHistory')] = now
                     /\ IsSuffixOf(SubSeq(commandHistory', 1, Len(commandHistory') - 1),
                                   commandHistory)]_vars

\* a call refused later than every timestamp of the full history, which it left
\* as it was
C24_Witness ==
    /\ rateLog # <<>>
    /\ rateLog[Len(rateLog)].limited
    /\ Len(commandHistory) = RATE_LIMIT_MAX
    /\ \A j \in 1..Len(commandHistory) : commandHistory[j] < rateLog[Len(rateLog)].at

\* the calls of isRateLimited that returned false from time t to RATE_LIMIT_WINDOW later
AdmittedWithin(t) ==
    {l \in 1..Len(rateLog) :
        /\ ~rateLog[l].limited
        /\ rateLog[l].at >= t
        /\ rateLog[l].at <= t + RATE_LIMIT_WINDOW}

\* C25: whatever the order in which the handlers of the requests in flight run and
\* their processes end, no more than RATE_LIMIT_MAX calls of isRateLimited that
\* fall into one interval of RATE_LIMIT_WINDOW milliseconds return false, and every
\* process of the two handlers belongs to a request that was let through.
C25_AtMostMaxPerWindow ==
    /\ \A k \in 1..Len(rateLog) :
          Cardinality(AdmittedWithin(rateLog[k].at)) <= RATE_LIMIT_MAX
    /\ \A p \in 1..Len(procs) :
          calls[procs[p].call].rateChecked /\ ~calls[procs[p].call].limited

\* of two identical requests in flight the one handled first is running as the
\* last that the window had room for, and the other was refused
C25_Witness ==
    \E i, j \in 1..Len(calls) :
        /\ i > j
        /\ calls[i].channel = calls[j].channel
        /\ calls[i].command = calls[j].command
        /\ calls[i].state = "executing"
        /\ calls[j].limited
        /\ Cardinality(AdmittedWithin(0)) = RATE_LIMIT_MAX

\* a name the handlers have to refuse: not a string, empty or only whitespace,
\* longer than 100 characters, or with a shell metacharacter in it
IsBadName(n) ==
    \/ n.t # "string"
    \/ \A j \in 1..Len(n.s) : CharAt(n.s, j) \in SpaceSet
    \/ Len(n.s) > 100
    \/ \E j \in 1..Len(n.s) : CharAt(n.s, j) \in ShellMetaChars

QuotePositions(line) == {j \in 1..Len(line) : CharAt(line, j) = "'"}

\* the name a process was started with: the second argument of vmconnect.exe, or
\* what stands between the first and the last single quote of the command line
NamePlaced(proc) ==
    IF proc.line = "vmconnect.exe" THEN proc.args[2]
    ELSE SubSeq(proc.line, SetMin(QuotePositions(proc.line)) + 1,
                SetMax(QuotePositions(proc.line)) - 1)

NoDangerousChar(s) ==
    \A j \in 1..Len(s) : CharAt(s, j) \notin ShellMetaChars \cup {"'", "\"", "\\"}

\* C30: in start-vm, shutdown-vm, stop-vm, restart-vm, turnoff-vm and
\* launch-vmconnect a name that is not a string, is empty or whitespace, is longer
\* than 100 characters or holds a shell metacharacter is answered with
\* success=false and 'Invalid VM name' and no process is started for it; and the
\* name inside every command line or argument list of a process holds no quote,
\* no backslash and no shell metacharacter.
C30_VmNameValidated ==
    \A i \in 1..Len(calls) :
        calls[i].channel \in VmChannels =>
            /\ (calls[i].state # "arrived" /\ IsBadName(calls[i].command)) =>
                  /\ calls[i].state = "replied"
                  /\ calls[i].reply = [success |-> FALSE, error |-> "Invalid VM name"]
                  /\ ~ProcessStartedFor(i)
            /\ \A k \in 1..Len(procs) :
                  procs[k].call = i =>
                      /\ procs[k].line # "vmconnect.exe" =>
                            Cardinality(QuotePositions(procs[k].line)) = 2
                      /\ NoDangerousChar(NamePlaced(procs[k]))

\* stop-vm refused a name with a semicolon in it, and nothing was started
C30_Witness ==
    /\ procs = <<>>
    /\ \E i \in 1..Len(calls) :
          /\ calls[i].channel = "stop-vm"
          /\ calls[i].command = Str("vm;1")
          /\ calls[i].state = "replied"
          /\ calls[i].reply.error = "Invalid VM name"

\* C29 as stated: a request the bridge gets from api.invoke for a channel that the
\* renderer's own code uses is never rejected as not allowed.
C29_RendererChannelsAllowed ==
    \A i \in 1..Len(requests) :
        (/\ requests[i].api = "invoke"
         /\ requests[i].channel \in {Str(c) : c \in RendererInvokeChannels})
            => /\ requests[i].phase # "Rejected"
               /\ requests[i].error # NotAllowed(requests[i].channel)

\* C21 as stated: a task that is success or error has progress 100, and a task
\* that is cancelled and still in the list after a step is still cancelled, with
\* the progress it had.
C21_TerminalStatesFinal ==
    /\ [](\A j \in 1..Len(tasksList) :
             tasksList[j].status \in {"success", "error"} => tasksList[j].progress = Num(100))
    /\ [][\A j \in 1..Len(tasksList), k \in 1..Len(tasksList') :
             (tasksList'[k].id = tasksList[j].id /\ tasksList[j].status = "cancelled")
                 => /\ tasksList'[k].status = "cancelled"
                    /\ tasksList'[k].progress = tasksList[j].progress]_vars

\* C26: a step in which a running task becomes cancelled changes no request in
\* flight, no process, nothing the bridge has recorded and no operation waiting
\* for a result; and an operation that went on after its await did so with the
\* reply of its request, which a request gets only from its handler.
C26_CancelLeavesRequestAlone ==
    /\ [][\A j \in 1..Len(tasksList) :
             (/\ Len(tasksList') = Len(tasksList)
              /\ tasksList[j].status = "running"
              /\ tasksList'[j].status = "cancelled")
                 => /\ calls' = calls
                    /\ procs' = procs
                    /\ requests' = requests
                    /\ handlerRuns' = handlerRuns
                    /\ ops' = ops]_vars
    /\ [](\A k \in 1..Len(ops) :
             (ops[k].pc = "done" /\ ops[k].call # 0) =>
                 /\ calls[ops[k].call].state = "replied"
                 /\ calls[ops[k].call].reply # NotYet
                 /\ calls[ops[k].call].reply.success \in BOOLEAN)

\* a task cancelled while its request was in flight; the process of the request
\* ended all the same and the reply is there for the waiting operation
C26_Witness ==
    \E k \in 1..Len(ops) :
        /\ ops[k].pc = "awaiting"
        /\ FindTask(tasksList, ops[k].taskId) # 0
        /\ tasksList[FindTask(tasksList, ops[k].taskId)].status = "cancelled"
        /\ calls[ops[k].call].state = "replied"
        /\ calls[ops[k].call].exit # NotYet
        /\ calls[ops[k].call].reply.success

\* C27 as stated: once a UI operation that created a task has run to its end, the
\* task is no longer running.
C27_TaskLeavesRunning ==
    \A k \in 1..Len(ops) :
        (ops[k].pc = "done" /\ ops[k].taskId # Null) =>
            LET j == FindTask(tasksList, ops[k].taskId)
            IN  j = 0 \/ tasksList[j].status # "running"

====
